---- MODULE Spec2Model ----
(***************************************************************************)
(* Model of the zero-trust gateway core of zta-finance: the token manager, *)
(* the authenticator, the session manager, the login handlers, the policy  *)
(* engine, the risk analyzer and the policy decision and enforcement       *)
(* points, all working on one shared Redis key/value store.                *)
(*                                                                         *)
(* Time is counted in ticks, TicksPerSec ticks to the second, so that the  *)
(* whole-second arithmetic of JWT claims and of Redis TTLs is visible.     *)
(* Identifiers (usernames, user ids, device ids) are sequences of          *)
(* characters, so that the f-string keys built from them can collide and   *)
(* be glob-matched exactly as the strings do.                              *)
(***************************************************************************)
EXTENDS Integers, Sequences, FiniteSets, TLC

VARIABLES
    now,        \* the UTC clock, in ticks
    tz,         \* offset of the host's local time zone from UTC, in seconds
    policies,   \* the policy list loaded at start (immutable afterwards)
    redis,      \* the key/value store: key -> [val, exp]; exp = NoTTL or a tick
    issued,     \* every token handed out: [tok, kind, subject, user_id, roles, device_id]
    blCalled,   \* history: tokens T for which blacklist_token(T) ran before T.exp
    revoked,    \* history: refresh tokens revoked since they were last issued
    loginLog,   \* history: one record per login that issued tokens
    failRun,    \* history: username -> failures counted since its counter was last absent
    proc,       \* the concurrent request handlers: pid -> [pc, ...locals]
    results,    \* history: the accepting returns of verify_mfa_token and verify_reset_token;
                \* the risk scores computed; per decision, the store call that failed
    created,    \* history: the sessions created, with their binding; the reset tokens generated
    invalidated,\* history: the session ids whose invalidate_session has completed
    ret         \* the value returned by the operation that led to this state

vars == <<now, tz, policies, redis, issued, blCalled, revoked, loginLog, failRun, proc, results,
          created, invalidated, ret>>

----------------------------------------------------------------------------
(* Bounds of the model *)

TicksPerSec == 2
MaxTime == 4
MaxIssued == 2
TzShift == 2

(* Configuration (config.settings, defaults scaled down to the clock range) *)
AccessTokenExpireSecs == 1
RefreshTokenExpireSecs == 2

NoTTL == -1
None == "None"
NoRet == [op |-> "none"]

\* Optional values: Python's None and a present value
Nothing == [some |-> FALSE]
Some(v) == [some |-> TRUE, v |-> v]

Procs == {"p1", "p2"}
Idle == [pc |-> "idle"]

Usernames == { <<"a">>, <<"a", ":", "b">> }
UserIds == { <<"user_">> \o n : n \in Usernames }
DeviceIds == { <<"d">>, <<"b", ":", "d">> }
AccessSubjects == { <<"a">> }
AccessDevices == { <<"d">> }
Roles == <<"account_holder">>
TokenTypes == {"access", "refresh"}
TzOffsets == { -TzShift, 0, TzShift }

----------------------------------------------------------------------------
(* Python helpers *)

\* int(x / d) for d > 0: truncation toward zero
PyInt(x, d) == IF x >= 0 THEN x \div d ELSE -((-x) \div d)

\* dict.update: the entries of extra replace those of claims
DictUpdate(claims, extra) ==
    [k \in DOMAIN claims \cup DOMAIN extra |->
        IF k \in DOMAIN extra THEN extra[k] ELSE claims[k]]

EmptyDict == [k \in {} |-> None]

\* dict.get(k) with None for a missing key
DictGet(d, k) == IF k \in DOMAIN d THEN d[k] ELSE None

----------------------------------------------------------------------------
(* The Redis store *)

Live(r, t, k) == k \in DOMAIN r /\ (r[k].exp = NoTTL \/ t < r[k].exp)

\* GET: the value, or None for a missing or expired key
RedisGet(k) == IF Live(redis, now, k) THEN Some(redis[k].val) ELSE Nothing

\* EXISTS
RedisExists(k) == IF Live(redis, now, k) THEN 1 ELSE 0

\* SETEX key seconds value
RedisSetex(r, k, secs, v) ==
    [x \in DOMAIN r \cup {k} |->
        IF x = k THEN [val |-> v, exp |-> now + secs * TicksPerSec] ELSE r[x]]

\* DEL key
RedisDelete(r, k) == [x \in DOMAIN r \ {k} |-> r[x]]

\* keys whose TTL has run out at tick t are removed by the store
Purge(r, t) == [x \in {k \in DOMAIN r : Live(r, t, k)} |-> r[x]]

\* INCR key: a missing key counts from 0 and gets no TTL
RedisIncr(r, k) ==
    IF Live(r, now, k) THEN [r EXCEPT ![k].val = @ + 1]
    ELSE [x \in DOMAIN r \cup {k} |-> IF x = k THEN [val |-> 1, exp |-> NoTTL] ELSE r[x]]

\* An EXPIRE that is lost
RedisExpireDropped(r, k, secs) == r

\* EXPIRE key seconds
RedisExpire(r, k, secs) ==
    IF Live(r, now, k) THEN [r EXCEPT ![k].exp = now + secs * TicksPerSec] ELSE r

FailedKey(username) == <<"failed_attempts:">> \o username

----------------------------------------------------------------------------
(* JWT codec (PyJWT, HS256) *)

\* jwt.encode: datetime claims become whole seconds; the signature is the
\* HMAC of the claim set, so equal claim sets give the same token
JwtEncode(claims) ==
    [claims |-> [k \in DOMAIN claims |->
                    IF k \in {"exp", "iat"} THEN claims[k] \div TicksPerSec
                    ELSE claims[k]],
     sig |-> "valid"]

\* a token carrying the same claims under a signature made with another key
Forge(tok) == [tok EXCEPT !.sig = "forged"]

SignatureOk(tok) == tok.sig = "valid"

\* jwt.decode's expiry check: exp <= now raises ExpiredSignatureError
Expired(tok) == tok.claims["exp"] * TicksPerSec <= now

\* jwt.decode(token, key, algorithms): the error raised ("none" when the
\* payload is returned)
JwtDecodeError(tok, verify_exp) ==
    IF ~SignatureOk(tok) THEN "InvalidTokenError"
    ELSE IF verify_exp /\ Expired(tok) THEN "ExpiredSignatureError"
    ELSE "none"

----------------------------------------------------------------------------
(* TokenManager *)

BlacklistKey(tok) == <<"blacklist:", tok>>
RefreshKey(user_id, device_id) == <<"refresh_token:">> \o user_id \o <<":">> \o device_id

IsTokenBlacklisted(tok) == RedisExists(BlacklistKey(tok)) > 0

AccessClaims(subject, user_id, roles, device_id, additional_claims) ==
    DictUpdate(
        [k \in {"sub", "user_id", "roles", "device_id", "exp", "iat", "type"} |->
            CASE k = "sub" -> subject
              [] k = "user_id" -> user_id
              [] k = "roles" -> roles
              [] k = "device_id" -> device_id
              [] k = "exp" -> now + AccessTokenExpireSecs * TicksPerSec
              [] k = "iat" -> now
              [] k = "type" -> "access"],
        additional_claims)

CreateAccessTokenValue(subject, user_id, roles, device_id, additional_claims) ==
    JwtEncode(AccessClaims(subject, user_id, roles, device_id, additional_claims))

RefreshClaims(user_id, device_id) ==
    [k \in {"user_id", "device_id", "exp", "iat", "type"} |->
        CASE k = "user_id" -> user_id
          [] k = "device_id" -> device_id
          [] k = "exp" -> now + RefreshTokenExpireSecs * TicksPerSec
          [] k = "iat" -> now
          [] k = "type" -> "refresh"]

CreateRefreshTokenValue(user_id, device_id) == JwtEncode(RefreshClaims(user_id, device_id))

\* verify_token without its blacklist lookup
VerifyTokenNoBlacklist(tok, token_type) ==
    IF JwtDecodeError(tok, TRUE) # "none" THEN Nothing
    ELSE IF DictGet(tok.claims, "type") # token_type THEN Nothing
    ELSE Some(tok.claims)

\* verify_token(token, token_type): the payload or None
VerifyToken(tok, token_type) ==
    IF JwtDecodeError(tok, TRUE) # "none" THEN Nothing
    ELSE IF DictGet(tok.claims, "type") # token_type THEN Nothing
    ELSE IF IsTokenBlacklisted(tok) THEN Nothing
    ELSE Some(tok.claims)

\* blacklist_token's ttl: the local-time reading of exp minus the UTC clock
BlacklistTtl(tok) ==
    PyInt((tok.claims["exp"] + tz) * TicksPerSec - now, TicksPerSec)

\* blacklist_token(token): the store after the call
BlacklistStore(tok) ==
    IF JwtDecodeError(tok, FALSE) # "none" THEN redis
    ELSE IF BlacklistTtl(tok) > 0
         THEN RedisSetex(redis, BlacklistKey(tok), BlacklistTtl(tok), "1")
         ELSE redis

\* Redis glob matching (scan_iter's match=): * matches any run of characters
RECURSIVE GlobMatch(_, _)
GlobMatch(p, s) ==
    IF p = <<>> THEN s = <<>>
    ELSE IF Head(p) = "*"
         THEN GlobMatch(Tail(p), s) \/ (s # <<>> /\ GlobMatch(p, Tail(s)))
         ELSE s # <<>> /\ Head(s) = Head(p) /\ GlobMatch(Tail(p), Tail(s))

RevokeAllPattern(user_id) == <<"refresh_token:">> \o user_id \o <<":", "*">>

\* revoke_all_user_tokens(user_id): the store after the scan-and-delete loop
RevokeAllStore(user_id) ==
    [x \in {k \in DOMAIN redis : ~GlobMatch(RevokeAllPattern(user_id), k)} |-> redis[x]]

\* the tokens a client can present: those handed out, and forgeries of them
Presentable == {i.tok : i \in issued} \cup {Forge(i.tok) : i \in issued}

ExtraClaims ==
    { EmptyDict,
      [k \in {"mfa_verified"} |-> TRUE],
      [k \in {"type"} |-> "refresh"],
      [k \in {"sub"} |-> <<"r", "o", "o", "t">>] }

\* what a create_* call was given (its arguments), signed (the claim set handed
\* to jwt.encode, less its two time stamps) and returned (tok)
IssuedRecord(tok, kind, claims, subject, user_id, roles, device_id) ==
    [tok |-> tok, kind |-> kind,
     claims |-> [k \in DOMAIN claims \ {"exp", "iat"} |-> claims[k]],
     subject |-> subject,
     user_id |-> user_id, roles |-> roles, device_id |-> device_id]

CanIssue(tok) == tok \in {i.tok : i \in issued} \/ Cardinality(issued) < MaxIssued

otherVars == <<loginLog, failRun, proc, results, created, invalidated>>

create_access_token(subject, user_id, device_id, additional_claims) ==
    LET tok == CreateAccessTokenValue(subject, user_id, Roles, device_id, additional_claims) IN
    /\ CanIssue(tok)
    /\ issued' = issued \cup
          {IssuedRecord(tok, "access",
                        AccessClaims(subject, user_id, Roles, device_id, additional_claims),
                        subject, user_id, Roles, device_id)}
    /\ ret' = NoRet
    /\ UNCHANGED <<now, tz, policies, redis, blCalled, revoked, otherVars>>

create_refresh_token(user_id, device_id) ==
    LET tok == CreateRefreshTokenValue(user_id, device_id) IN
    /\ CanIssue(tok)
    /\ redis' = RedisSetex(redis, RefreshKey(user_id, device_id), RefreshTokenExpireSecs, tok)
    /\ issued' = issued \cup
          {IssuedRecord(tok, "refresh", RefreshClaims(user_id, device_id),
                        <<>>, user_id, <<>>, device_id)}
    /\ revoked' = revoked \ {tok}
    /\ ret' = NoRet
    /\ UNCHANGED <<now, tz, policies, blCalled, otherVars>>

verify_token(tok, token_type) ==
    /\ ret' = [op |-> "verify_token", type |-> token_type,
               some |-> VerifyToken(tok, token_type).some]
    /\ UNCHANGED <<now, tz, policies, redis, issued, blCalled, revoked, otherVars>>

blacklist_token(tok) ==
    /\ redis' = BlacklistStore(tok)
    /\ blCalled' = IF SignatureOk(tok) /\ ~Expired(tok) THEN blCalled \cup {tok} ELSE blCalled
    /\ ret' = NoRet
    /\ UNCHANGED <<now, tz, policies, issued, revoked, otherVars>>

IssuedFor(user_ids, device_ids) ==
    {i.tok : i \in {j \in issued : j.kind = "refresh" /\ j.user_id \in user_ids
                                    /\ j.device_id \in device_ids}}

revoke_refresh_token(user_id, device_id) ==
    /\ redis' = RedisDelete(redis, RefreshKey(user_id, device_id))
    /\ revoked' = revoked \cup IssuedFor({user_id}, {device_id})
    /\ ret' = NoRet
    /\ UNCHANGED <<now, tz, policies, issued, blCalled, otherVars>>

revoke_all_user_tokens(user_id) ==
    /\ redis' = RevokeAllStore(user_id)
    /\ revoked' = revoked \cup IssuedFor({user_id}, DeviceIds)
    /\ ret' = NoRet
    /\ UNCHANGED <<now, tz, policies, issued, blCalled, otherVars>>

\* the clock advances by d ticks, up to the horizon; keys whose TTL has run
\* out disappear, and a failure run ends with its counter
Pass(d, horizon) ==
    /\ now + d <= horizon
    /\ now' = now + d
    /\ redis' = Purge(redis, now + d)
    /\ failRun' = [u \in Usernames |->
                     IF Live(redis, now + d, FailedKey(u)) THEN failRun[u] ELSE 0]
    /\ ret' = NoRet
    /\ UNCHANGED <<tz, policies, issued, blCalled, revoked, loginLog, proc, results,
                   created, invalidated>>

Tick == Pass(1, MaxTime)

InitStore ==
    /\ now = 0
    /\ redis = [k \in {} |-> None]
    /\ issued = {}
    /\ blCalled = {}
    /\ revoked = {}
    /\ loginLog = <<>>
    /\ failRun = [u \in Usernames |-> 0]
    /\ proc = [p \in Procs |-> Idle]
    /\ results = <<>>
    /\ created = {}
    /\ invalidated = {}
    /\ ret = NoRet

\* the host's time zone is fixed when the process starts
InitToken == InitStore /\ tz \in TzOffsets /\ policies = <<>>

\* the life cycle of access tokens: issue, verify, blacklist, expire
NextToken ==
    \/ \E s \in AccessSubjects, d \in AccessDevices, x \in ExtraClaims :
          create_access_token(s, <<"user_">> \o s, d, x)
    \/ \E s \in AccessSubjects, d \in AccessDevices :
          create_refresh_token(<<"user_">> \o s, d)
    \/ \E t \in Presentable, ty \in TokenTypes : verify_token(t, ty)
    \/ \E t \in Presentable : blacklist_token(t)
    \/ Tick

SpecToken == InitToken /\ [][NextToken]_vars

\* the life cycle of refresh tokens and their mirror entries
NextRefresh ==
    \/ \E u \in UserIds, d \in DeviceIds : create_refresh_token(u, d)
    \/ \E t \in Presentable, ty \in TokenTypes : verify_token(t, ty)
    \/ \E u \in UserIds, d \in DeviceIds : revoke_refresh_token(u, d)
    \/ \E u \in UserIds : revoke_all_user_tokens(u)
    \/ Tick

\* every component but the token manager reads UTC only
InitUtc == InitStore /\ tz = 0 /\ policies = <<>>

SpecRefresh == InitUtc /\ [][NextRefresh]_vars

----------------------------------------------------------------------------
(* Token manager: properties *)

\* C1: once blacklist_token(T) has run on a validly signed, unexpired token T,
\* verify_token(T, type) returns no claims, for either type, as long as T is
\* unexpired (the blacklist entry is written and outlives the token).
C1_BlacklistedStaysRevoked ==
    \A t \in blCalled :
        ~Expired(t) => \A ty \in TokenTypes : ~VerifyToken(t, ty).some

\* C2: verify_token(T, "access") returns claims exactly when T is validly
\* signed, unexpired, of type access and has no blacklist entry; the sub,
\* user_id, roles and device_id it returns are those the token was signed with.
C2_VerifyAccessIff ==
    \A t \in Presentable :
        LET r == VerifyToken(t, "access") IN
        /\ r.some <=> /\ t.sig = "valid"
                      /\ now < t.claims["exp"] * TicksPerSec
                      /\ t.claims["type"] = "access"
                      /\ ~Live(redis, now, BlacklistKey(t))
        /\ r.some => \E i \in issued :
                        /\ i.tok = t
                        /\ \A k \in {"sub", "user_id", "roles", "device_id"} :
                              r.v[k] = i.claims[k]

\* a verify_token(T, "access") call has returned claims while another
\* presentable token is refused
C2_Witness ==
    /\ ret.op = "verify_token" /\ ret.type = "access" /\ ret.some
    /\ \E t \in Presentable : t.sig = "valid" /\ ~VerifyToken(t, "access").some

\* C3: whatever additional_claims holds, a token made by create_access_token
\* carries type access and the sub, user_id, roles and device_id arguments,
\* and is never accepted by verify_token(T, "refresh").
C3_AccessTokenKeepsArguments ==
    \A i \in issued :
        i.kind = "access" =>
            /\ i.tok.claims["type"] = "access"
            /\ i.tok.claims["sub"] = i.subject
            /\ i.tok.claims["user_id"] = i.user_id
            /\ i.tok.claims["roles"] = i.roles
            /\ i.tok.claims["device_id"] = i.device_id
            /\ ~VerifyToken(i.tok, "refresh").some

\* C4: every unexpired refresh token issued for (u, d) and not revoked since is
\* the value stored under the mirror key of (u, d).
C4_RefreshMirrored ==
    \A i \in issued :
        (i.kind = "refresh" /\ ~Expired(i.tok) /\ i.tok \notin revoked) =>
            /\ Live(redis, now, RefreshKey(i.user_id, i.device_id))
            /\ redis[RefreshKey(i.user_id, i.device_id)].val = i.tok

----------------------------------------------------------------------------
(* Authenticator: failed-attempt counter and lockout *)

MaxAttempts == 6
MaxLogins == 2
LockStepSecs == 900
LockHorizonSecs == 3600
AuditRetentionDays == 365

ExpireSeconds == 1800
LockedAt == 5
LockoutDuration == 1800
IsLockedAt == 5
UserEventsKept == 1000

notAuth == <<tz, policies, issued, blCalled, revoked, loginLog, created, invalidated>>

Counter(username) ==
    IF Live(redis, now, FailedKey(username)) THEN redis[FailedKey(username)].val ELSE 0

\* track_failed_attempt's result with the threshold compared strictly
TrackResultStrict(attempts) ==
    [attempts |-> attempts,
     locked |-> attempts > LockedAt,
     lockout_duration |-> IF attempts > LockedAt THEN LockoutDuration ELSE 0]

\* the dict track_failed_attempt returns
TrackResult(attempts) ==
    [attempts |-> attempts,
     locked |-> attempts >= LockedAt,
     lockout_duration |-> IF attempts >= LockedAt THEN LockoutDuration ELSE 0]

TrackReturn(username, nth, attempts) ==
    [op |-> "track_failed_attempt", username |-> username, nth |-> nth,
     res |-> TrackResult(attempts)]

\* track_failed_attempt, first store call: INCR; on a count above 1 it returns
tfa_incr(p, username) ==
    LET r == RedisIncr(redis, FailedKey(username))
        attempts == r[FailedKey(username)].val
        nth == failRun[username] + 1 IN
    /\ proc[p].pc = "idle"
    /\ Counter(username) < MaxAttempts
    /\ redis' = r
    /\ failRun' = [failRun EXCEPT ![username] = nth]
    /\ IF attempts = 1
       THEN /\ proc' = [proc EXCEPT ![p] = [pc |-> "tfa_expire", username |-> username,
                                            attempts |-> attempts, nth |-> nth]]
            /\ ret' = NoRet
       ELSE /\ proc' = proc
            /\ ret' = TrackReturn(username, nth, attempts)
    /\ UNCHANGED <<now, results, notAuth>>

\* track_failed_attempt, second store call: EXPIRE on the first attempt
tfa_expire(p) ==
    /\ proc[p].pc = "tfa_expire"
    /\ redis' = RedisExpire(redis, FailedKey(proc[p].username), ExpireSeconds)
    /\ proc' = [proc EXCEPT ![p] = Idle]
    /\ ret' = TrackReturn(proc[p].username, proc[p].nth, proc[p].attempts)
    /\ UNCHANGED <<now, failRun, results, notAuth>>

clear_failed_attempts(username) ==
    /\ redis' = RedisDelete(redis, FailedKey(username))
    /\ failRun' = [failRun EXCEPT ![username] = 0]
    /\ ret' = [op |-> "clear_failed_attempts", username |-> username]
    /\ UNCHANGED <<now, proc, results, notAuth>>

\* is_account_locked with the threshold compared strictly
IsAccountLockedStrict(username) == Counter(username) > IsLockedAt

\* is_account_locked(username): int(attempts or 0) >= 5
IsAccountLocked(username) == Counter(username) >= IsLockedAt

is_account_locked(username) ==
    /\ ret' = [op |-> "is_account_locked", username |-> username,
               val |-> IsAccountLocked(username)]
    /\ UNCHANGED <<now, redis, failRun, proc, results, notAuth>>

----------------------------------------------------------------------------
(* Audit log and the login handlers *)

AuditDayKey == <<"audit_events:", "today">>
UserEventsKey(user_id) == <<"user_events:">> \o user_id

\* LPUSH key value
RedisLpush(r, k, v) ==
    IF Live(r, now, k) THEN [r EXCEPT ![k].val = <<v>> \o @]
    ELSE [x \in DOMAIN r \cup {k} |-> IF x = k THEN [val |-> <<v>>, exp |-> NoTTL] ELSE r[x]]

\* LTRIM key 0 n-1
RedisLtrim(r, k, n) ==
    IF Live(r, now, k) /\ Len(r[k].val) > n
    THEN [r EXCEPT ![k].val = SubSeq(@, 1, n)] ELSE r

\* _store_event: the day list, then the user's list
StoreEvent(r, event) ==
    LET retention == AuditRetentionDays * 86400
        day == RedisExpire(RedisLpush(r, AuditDayKey, event), AuditDayKey, retention)
        ukey == UserEventsKey(event.user_id) IN
    RedisExpire(RedisLtrim(RedisLpush(day, ukey, event), ukey, UserEventsKept),
                ukey, retention)

\* log_authentication(user_id, success, method)
AuthenticationEvent(user_id, success, method) ==
    [event_type |-> "authentication",
     severity |-> IF success THEN "info" ELSE "warning",
     user_id |-> user_id,
     action |-> <<"authentication", method, IF success THEN "success" ELSE "failure">>,
     success |-> success]

\* what POST /auth/login does once the request is parsed: both tokens are
\* created and the authentication event is logged; the lock is never read
LoginEffect(username, device_id, mfa, method) ==
    LET user_id == <<"user_">> \o username
        extra == [k \in {"mfa_verified"} |-> mfa]
        access == CreateAccessTokenValue(username, user_id, Roles, device_id, extra)
        refresh == CreateRefreshTokenValue(user_id, device_id)
        mirrored == RedisSetex(redis, RefreshKey(user_id, device_id),
                               RefreshTokenExpireSecs, refresh) IN
    [issued |-> issued \cup
          {IssuedRecord(access, "access",
                        AccessClaims(username, user_id, Roles, device_id, extra),
                        username, user_id, Roles, device_id),
           IssuedRecord(refresh, "refresh", RefreshClaims(user_id, device_id),
                        <<>>, user_id, <<>>, device_id)},
     revoked |-> revoked \ {refresh},
     redis |-> StoreEvent(mirrored, AuthenticationEvent(user_id, TRUE, method)),
     loginLog |-> Append(loginLog, [username |-> username,
                                    locked |-> IsAccountLocked(username)]),
     ret |-> [op |-> "login", access_token |-> access, refresh_token |-> refresh]]

\* routes.py login: the device id of the request, or "device_unknown"
login(username, device_id, mfa) ==
    LET e == LoginEffect(username,
                         IF device_id = None THEN <<"device_unknown">> ELSE device_id,
                         mfa, IF mfa THEN "password_mfa" ELSE "password") IN
    /\ Len(loginLog) < MaxLogins
    /\ issued' = e.issued
    /\ revoked' = e.revoked
    /\ redis' = e.redis
    /\ loginLog' = e.loginLog
    /\ ret' = e.ret
    /\ UNCHANGED <<now, tz, policies, blCalled, failRun, proc, results, created, invalidated>>

\* gateway.py login
gateway_login(username, mfa) ==
    LET e == LoginEffect(username, <<"device_default">>, mfa, "password") IN
    /\ Len(loginLog) < MaxLogins
    /\ issued' = e.issued
    /\ revoked' = e.revoked
    /\ redis' = e.redis
    /\ loginLog' = e.loginLog
    /\ ret' = e.ret
    /\ UNCHANGED <<now, tz, policies, blCalled, failRun, proc, results, created, invalidated>>

\* the failed-attempt counter: concurrent failures, clearing, the lock check
NextLock ==
    \/ \E p \in Procs, u \in Usernames : tfa_incr(p, u)
    \/ \E p \in Procs : tfa_expire(p)
    \/ \E u \in Usernames : clear_failed_attempts(u)
    \/ \E u \in Usernames : is_account_locked(u)
    \/ Pass(LockStepSecs * TicksPerSec, LockHorizonSecs * TicksPerSec)

SpecLock == InitUtc /\ [][NextLock]_vars

\* failed attempts followed by login requests
NextLogin ==
    \/ \E u \in AccessSubjects : tfa_incr("p1", u)
    \/ tfa_expire("p1")
    \/ \E u \in AccessSubjects, d \in {None, <<"d">>}, m \in BOOLEAN : login(u, d, m)
    \/ \E u \in AccessSubjects, m \in BOOLEAN : gateway_login(u, m)
    \/ Pass(LockStepSecs * TicksPerSec, LockHorizonSecs * TicksPerSec)

SpecLogin == InitUtc /\ [][NextLogin]_vars

\* C5: counted from an absent counter, the n-th track_failed_attempt(U) of a
\* lockout window returns count n, locked exactly when n >= 5 and then a
\* lockout of 1800 s; from the 5th failure on is_account_locked(U) is true;
\* right after clear_failed_attempts(U) it is false.
C5_LockoutCounting ==
    /\ ret.op = "track_failed_attempt" =>
          /\ ret.res.attempts = ret.nth
          /\ ret.res.locked = (ret.nth >= 5)
          /\ ret.res.lockout_duration = (IF ret.nth >= 5 THEN 1800 ELSE 0)
    /\ \A u \in Usernames : IsAccountLocked(u) = (failRun[u] >= 5)
    /\ ret.op = "is_account_locked" => ret.val = (failRun[ret.username] >= 5)
    /\ ret.op = "clear_failed_attempts" => ~IsAccountLocked(ret.username)

\* the 5th failure of a run has just returned locked, and the account is locked
C5_Witness ==
    /\ ret.op = "track_failed_attempt" /\ ret.nth = 5 /\ ret.res.locked
    /\ IsAccountLocked(ret.username)

\* C6: no login issues tokens for a username whose account is locked.
C6_NoLoginWhileLocked ==
    \A i \in DOMAIN loginLog : ~loginLog[i].locked

----------------------------------------------------------------------------
(* Authenticator: TOTP verification with the replay mark *)

MfaStepSecs == 15
MfaHorizonSecs == 120
MaxAccepted == 3

TotpInterval == 30
ValidWindow == 1
MfaMarkSeconds == 30
ResetTokenSeconds == 3600

Secrets == {"S", "T"}

\* the counter TOTP derives from the clock
TimeCode(t) == t \div (TotpInterval * TicksPerSec)

\* pyotp's TOTP(secret).at(for_time, counter_offset): the code of one counter
\* value; codes of different secrets or counters are taken to differ
Totp(secret, counter) == <<secret, counter>>

\* the codes a client can submit: any code of any secret, or no code at all
Codes == {Totp(s, c) : s \in Secrets, c \in 0..(MfaHorizonSecs \div TotpInterval + ValidWindow)}
            \cup {<<"000000">>}

\* totp.verify(token, valid_window=1)
TotpVerify(secret, token, t) ==
    \E i \in -ValidWindow..ValidWindow : token = Totp(secret, TimeCode(t) + i)

MfaUsedKey(secret, token) == <<"mfa_used:", secret, ":">> \o token

MfaReturn(secret, token, val) ==
    [op |-> "verify_mfa_token", secret |-> secret, token |-> token, val |-> val]

notMfa == <<tz, policies, issued, blCalled, revoked, loginLog, failRun, created, invalidated>>

\* verify_mfa_token up to its EXISTS call: a wrong code and a marked code
\* return False
mfa_exists(p, secret, token) ==
    /\ proc[p].pc = "idle"
    /\ Len(results) < MaxAccepted
    /\ IF TotpVerify(secret, token, now) /\ RedisExists(MfaUsedKey(secret, token)) = 0
       THEN /\ proc' = [proc EXCEPT ![p] = [pc |-> "mfa_setex", secret |-> secret,
                                            token |-> token]]
            /\ ret' = NoRet
       ELSE /\ proc' = proc
            /\ ret' = MfaReturn(secret, token, FALSE)
    /\ UNCHANGED <<now, redis, results, notMfa>>

\* verify_mfa_token, the SETEX of the mark, and the return of True
mfa_setex(p) ==
    /\ proc[p].pc = "mfa_setex"
    /\ redis' = RedisSetex(redis, MfaUsedKey(proc[p].secret, proc[p].token),
                           MfaMarkSeconds, "1")
    /\ proc' = [proc EXCEPT ![p] = Idle]
    /\ results' = Append(results, MfaReturn(proc[p].secret, proc[p].token, TRUE))
    /\ ret' = MfaReturn(proc[p].secret, proc[p].token, TRUE)
    /\ UNCHANGED <<now, notMfa>>

\* verify_mfa_token called by one caller, each call after the previous one has
\* returned, while the clock runs
NextMfa ==
    \/ \E s \in Secrets, c \in Codes : mfa_exists("p1", s, c)
    \/ mfa_setex("p1")
    \/ Pass(MfaStepSecs * TicksPerSec, MfaHorizonSecs * TicksPerSec)

SpecMfa == InitUtc /\ [][NextMfa]_vars

\* C7: among sequential calls verify_mfa_token(S, C), at most one returns true
\* (a code is TOTP-valid during one interval of three steps only, so any two
\* acceptances of it fall inside that interval).
C7_MfaAcceptedOnce ==
    \A i, j \in DOMAIN results :
        (i < j /\ results[i].op = "verify_mfa_token" /\ results[j].op = "verify_mfa_token")
            => ~(results[i].secret = results[j].secret /\ results[i].token = results[j].token)

----------------------------------------------------------------------------
(* Authenticator: password reset tokens *)

MaxVerified == 3
ResetStepSecs == 1800
ResetHorizonSecs == 3600

\* values secrets.token_urlsafe(32) can return
ResetTokens == {"r1", "r2"}

ResetKey(token) == <<"reset_token:", token>>

ResetReturn(token, username) ==
    [op |-> "verify_reset_token", token |-> token, username |-> username]

\* generate_reset_token(username): a token never returned before, stored for an hour
generate_reset_token(username) ==
    \E token \in ResetTokens \ created :
        /\ redis' = RedisSetex(redis, ResetKey(token), ResetTokenSeconds, username)
        /\ created' = created \cup {token}
        /\ ret' = [op |-> "generate_reset_token", token |-> token]
        /\ UNCHANGED <<now, tz, policies, issued, blCalled, revoked, loginLog, failRun, proc,
                       results, invalidated>>

\* verify_reset_token up to its GET: a missing token returns None
rst_get(p, token) ==
    LET username == RedisGet(ResetKey(token)) IN
    /\ proc[p].pc = "idle"
    /\ Len(results) < MaxVerified
    /\ IF username.some
       THEN /\ proc' = [proc EXCEPT ![p] = [pc |-> "rst_del", token |-> token,
                                            username |-> username.v]]
            /\ ret' = NoRet
       ELSE /\ proc' = proc
            /\ ret' = ResetReturn(token, Nothing)
    /\ UNCHANGED <<now, redis, results, notMfa>>

\* verify_reset_token, the DELETE, and the return of the username read before
rst_del(p) ==
    /\ proc[p].pc = "rst_del"
    /\ redis' = RedisDelete(redis, ResetKey(proc[p].token))
    /\ proc' = [proc EXCEPT ![p] = Idle]
    /\ results' = Append(results, ResetReturn(proc[p].token, Some(proc[p].username)))
    /\ ret' = ResetReturn(proc[p].token, Some(proc[p].username))
    /\ UNCHANGED <<now, notMfa>>

\* reset tokens generated and verified by concurrent requests
NextReset ==
    \/ \E u \in Usernames : generate_reset_token(u)
    \/ \E p \in Procs, t \in ResetTokens : rst_get(p, t)
    \/ \E p \in Procs : rst_del(p)
    \/ Pass(ResetStepSecs * TicksPerSec, ResetHorizonSecs * TicksPerSec)

SpecReset == InitUtc /\ [][NextReset]_vars

\* C8: for every generated reset token, at most one verify_reset_token call
\* returns a username, however the calls interleave.
C8_ResetTokenSingleUse ==
    \A i, j \in DOMAIN results :
        (i < j /\ results[i].op = "verify_reset_token" /\ results[j].op = "verify_reset_token")
            => results[i].token # results[j].token

----------------------------------------------------------------------------
(* Session manager *)

SessionTimeoutSecs == 1
MaxActivity == 3

SessionUsers == {<<"user_", "a">>}
Ips == {"ip1", "ip2"}
\* values secrets.token_urlsafe(32) returns, and the ids a request can name:
\* those and one that was never handed out
SessionIds == {"s1"}
RequestedIds == SessionIds \cup {"s0"}

SessionKey(session_id) == <<"session:", session_id>>
UserSessionsKey(user_id) == <<"user_sessions:">> \o user_id

\* SADD key member
RedisSadd(r, k, m) ==
    IF Live(r, now, k) THEN [r EXCEPT ![k].val = @ \cup {m}]
    ELSE [x \in DOMAIN r \cup {k} |-> IF x = k THEN [val |-> {m}, exp |-> NoTTL] ELSE r[x]]

\* SREM key member: a set left empty is removed
RedisSrem(r, k, m) ==
    IF ~Live(r, now, k) THEN r
    ELSE IF r[k].val \ {m} = {} THEN RedisDelete(r, k)
    ELSE [r EXCEPT ![k].val = @ \ {m}]

\* get_session(session_id): the stored record (json.loads of json.dumps of a
\* dict of strings and integers gives the dict back), or None
GetSession(session_id) == RedisGet(SessionKey(session_id))

\* the session_data dict of create_session; metadata is opaque and left out
SessionData(session_id, user_id, device_id, ip_address) ==
    [session_id |-> session_id, user_id |-> user_id, device_id |-> device_id,
     ip_address |-> ip_address, created_at |-> now, last_activity |-> now,
     activity_count |-> 0]

\* verify_session's two consistency checks with the second one left out
SessionAnomaliesDeviceOnly(session, device_id, ip_address) ==
    IF session.device_id # device_id THEN <<"device_mismatch">> ELSE <<>>

\* verify_session's two consistency checks, in the order they are made
SessionAnomalies(session, device_id, ip_address) ==
    (IF session.device_id # device_id THEN <<"device_mismatch">> ELSE <<>>)
        \o (IF session.ip_address # ip_address THEN <<"ip_address_change">> ELSE <<>>)

\* time_since_activity > self.session_timeout
FreshnessExpired(session, t) ==
    t - session.last_activity > SessionTimeoutSecs * TicksPerSec

NotFoundResult ==
    [valid |-> FALSE, anomalies |-> <<"session_not_found">>, session |-> Nothing]

\* the dict verify_session returns for a session it found
FoundResult(session, device_id, ip_address) ==
    LET anomalies == SessionAnomalies(session, device_id, ip_address) IN
    IF FreshnessExpired(session, now)
    THEN [valid |-> FALSE, anomalies |-> Append(anomalies, "session_expired"),
          session |-> Nothing]
    ELSE [valid |-> Len(anomalies) = 0, anomalies |-> anomalies,
          session |-> Some(session)]

\* verify_session(session_id, device_id, ip_address) run against the store as it is
VerifySessionResult(session_id, device_id, ip_address) ==
    LET session == GetSession(session_id) IN
    IF session.some THEN FoundResult(session.v, device_id, ip_address)
    ELSE NotFoundResult

VsReturn(session_id, device_id, ip_address, res) ==
    [op |-> "verify_session", session_id |-> session_id, device_id |-> device_id,
     ip_address |-> ip_address, res |-> res]

notSession == <<tz, policies, issued, blCalled, revoked, loginLog, failRun, results>>

\* create_session: SETEX of the record, SADD to the user's set, EXPIRE of the set
create_session(user_id, device_id, ip_address) ==
    \E session_id \in SessionIds \ {c.session_id : c \in created} :
        LET data == SessionData(session_id, user_id, device_id, ip_address)
            stored == RedisSetex(redis, SessionKey(session_id), SessionTimeoutSecs, data)
            added == RedisSadd(stored, UserSessionsKey(user_id), session_id) IN
        /\ redis' = RedisExpire(added, UserSessionsKey(user_id), SessionTimeoutSecs)
        /\ created' = created \cup {[session_id |-> session_id, user_id |-> user_id,
                                     device_id |-> device_id, ip_address |-> ip_address]}
        /\ ret' = [op |-> "create_session", session_id |-> session_id]
        /\ UNCHANGED <<now, proc, invalidated, notSession>>

\* the verify_session result a step's caller is waiting to return, if the
\* step runs inside verify_session
PendingOf(p) == IF proc[p].pc = "idle" THEN Nothing ELSE proc[p].pending

ReturnOf(p, own) == IF PendingOf(p).some THEN PendingOf(p).v ELSE own

\* p is at the GET of the named operation: called directly (idle) or reached
\* from verify_session
AtGet(p, pc, session_id) ==
    \/ proc[p].pc = "idle"
    \/ proc[p].pc = pc /\ proc[p].session_id = session_id

\* activity_count stays within MaxActivity
CanUpdate(session_id) ==
    LET session == GetSession(session_id)
        busy == {q \in Procs : proc[q].pc \in {"usa_get", "usa_setex"}} IN
    session.some => session.v.activity_count + Cardinality(busy) < MaxActivity

\* verify_session up to the freshness check: the GET and the two comparisons;
\* what it returns is fixed here, the invalidation or the update follows
vs_get(p, session_id, device_id, ip_address) ==
    LET session == GetSession(session_id)
        res == VerifySessionResult(session_id, device_id, ip_address) IN
    /\ proc[p].pc = "idle"
    /\ CanUpdate(session_id)
    /\ IF session.some
       THEN /\ proc' = [proc EXCEPT ![p] =
                   [pc |-> IF FreshnessExpired(session.v, now) THEN "inv_get" ELSE "usa_get",
                    session_id |-> session_id,
                    pending |-> Some(VsReturn(session_id, device_id, ip_address, res))]]
            /\ ret' = NoRet
       ELSE /\ proc' = proc
            /\ ret' = VsReturn(session_id, device_id, ip_address, res)
    /\ UNCHANGED <<now, redis, created, invalidated, notSession>>

\* update_session_activity up to its GET: False for a missing session
usa_get(p, session_id) ==
    LET session == GetSession(session_id) IN
    /\ AtGet(p, "usa_get", session_id)
    /\ proc[p].pc = "idle" => CanUpdate(session_id)
    /\ IF session.some
       THEN /\ proc' = [proc EXCEPT ![p] =
                   [pc |-> "usa_setex", session_id |-> session_id,
                    pending |-> PendingOf(p),
                    session |-> [session.v EXCEPT !.last_activity = now,
                                                  !.activity_count = @ + 1]]]
            /\ ret' = NoRet
       ELSE /\ proc' = [proc EXCEPT ![p] = Idle]
            /\ ret' = ReturnOf(p, [op |-> "update_session_activity",
                                   session_id |-> session_id, val |-> FALSE])
    /\ UNCHANGED <<now, redis, created, invalidated, notSession>>

\* update_session_activity, the SETEX of the record read before
usa_setex(p) ==
    /\ proc[p].pc = "usa_setex"
    /\ redis' = RedisSetex(redis, SessionKey(proc[p].session_id), SessionTimeoutSecs,
                           proc[p].session)
    /\ proc' = [proc EXCEPT ![p] = Idle]
    /\ ret' = ReturnOf(p, [op |-> "update_session_activity",
                           session_id |-> proc[p].session_id, val |-> TRUE])
    /\ UNCHANGED <<now, created, invalidated, notSession>>

\* invalidate_session up to its GET: False for a missing session
inv_get(p, session_id) ==
    LET session == GetSession(session_id) IN
    /\ AtGet(p, "inv_get", session_id)
    /\ IF session.some
       THEN /\ proc' = [proc EXCEPT ![p] =
                   [pc |-> "inv_del", session_id |-> session_id,
                    pending |-> PendingOf(p), user_id |-> session.v.user_id]]
            /\ ret' = NoRet
       ELSE /\ proc' = [proc EXCEPT ![p] = Idle]
            /\ ret' = ReturnOf(p, [op |-> "invalidate_session",
                                   session_id |-> session_id, val |-> FALSE])
    /\ UNCHANGED <<now, redis, created, invalidated, notSession>>

\* invalidate_session, the DELETE of the record
inv_del(p) ==
    /\ proc[p].pc = "inv_del"
    /\ redis' = RedisDelete(redis, SessionKey(proc[p].session_id))
    /\ proc' = [proc EXCEPT ![p].pc = "inv_srem"]
    /\ ret' = NoRet
    /\ UNCHANGED <<now, created, invalidated, notSession>>

\* invalidate_session, the SREM from the user's set, and the return of True
inv_srem(p) ==
    /\ proc[p].pc = "inv_srem"
    /\ redis' = RedisSrem(redis, UserSessionsKey(proc[p].user_id), proc[p].session_id)
    /\ proc' = [proc EXCEPT ![p] = Idle]
    /\ invalidated' = invalidated \cup {proc[p].session_id}
    /\ ret' = ReturnOf(p, [op |-> "invalidate_session",
                           session_id |-> proc[p].session_id, val |-> TRUE])
    /\ UNCHANGED <<now, created, notSession>>

\* sessions created with any binding and verified with any device and address,
\* one request at a time
NextSession ==
    \/ \E u \in SessionUsers, d \in DeviceIds, ip \in Ips : create_session(u, d, ip)
    \/ \E s \in RequestedIds, d \in DeviceIds, ip \in Ips : vs_get("p1", s, d, ip)
    \/ \E s \in RequestedIds : usa_get("p1", s)
    \/ usa_setex("p1")
    \/ \E s \in RequestedIds : inv_get("p1", s)
    \/ inv_del("p1")
    \/ inv_srem("p1")
    \/ Tick

SpecSession == InitUtc /\ [][NextSession]_vars

\* concurrent requests on sessions of one device and address
NextSessionRace ==
    \/ \E u \in SessionUsers : create_session(u, <<"d">>, "ip1")
    \/ \E p \in Procs, s \in RequestedIds : vs_get(p, s, <<"d">>, "ip1")
    \/ \E p \in Procs, s \in RequestedIds : usa_get(p, s)
    \/ \E p \in Procs : usa_setex(p)
    \/ \E p \in Procs, s \in RequestedIds : inv_get(p, s)
    \/ \E p \in Procs : inv_del(p)
    \/ \E p \in Procs : inv_srem(p)
    \/ Tick

SpecSessionRace == InitUtc /\ [][NextSessionRace]_vars

\* the anomalies the binding of a session calls for
BindingAnomalies(c, device_id, ip_address) ==
    IF device_id # c.device_id /\ ip_address # c.ip_address
    THEN <<"device_mismatch", "ip_address_change">>
    ELSE IF device_id # c.device_id THEN <<"device_mismatch">>
    ELSE IF ip_address # c.ip_address THEN <<"ip_address_change">>
    ELSE <<>>

\* C9: for a session created with (u, d, ip), neither expired nor invalidated,
\* verify_session(sid, d', ip') is valid exactly when d' = d and ip' = ip, its
\* anomalies are device_mismatch (d' # d) then ip_address_change (ip' # ip),
\* and the session record is returned; every verify_session call that returns
\* a record answers so for the binding the session was created with.
C9_VerifySessionBinding ==
    /\ \A c \in created :
          LET session == GetSession(c.session_id) IN
          (session.some /\ c.session_id \notin invalidated
              /\ ~FreshnessExpired(session.v, now)) =>
             \A d \in DeviceIds, ip \in Ips :
                LET r == VerifySessionResult(c.session_id, d, ip) IN
                /\ r.valid = (d = c.device_id /\ ip = c.ip_address)
                /\ r.anomalies = BindingAnomalies(c, d, ip)
                /\ r.session = Some(session.v)
    /\ (ret.op = "verify_session" /\ ret.res.session.some) =>
          \E c \in created :
             /\ c.session_id = ret.session_id
             /\ ret.res.valid = (ret.device_id = c.device_id /\ ret.ip_address = c.ip_address)
             /\ ret.res.anomalies = BindingAnomalies(c, ret.device_id, ret.ip_address)
             /\ ret.res.session.v.device_id = c.device_id
             /\ ret.res.session.v.ip_address = c.ip_address

\* a verify_session call has returned both anomalies and the record of a live session
C9_Witness ==
    /\ ret.op = "verify_session"
    /\ ret.res.anomalies = <<"device_mismatch", "ip_address_change">>
    /\ ret.res.session.some
    /\ ~ret.res.valid
    /\ ret.session_id \notin invalidated
    /\ GetSession(ret.session_id).some

\* C10: once invalidate_session(sid) has completed and get_session(sid)
\* returns no record, no later step of any operation makes get_session(sid)
\* return a record again.
C10_InvalidatedIsTerminal ==
    [][\A session_id \in invalidated :
          ~GetSession(session_id).some => ~GetSession(session_id).some']_vars

\* C11: every live session record of user u has its id in the set
\* user_sessions:{u} (so that invalidate_all_user_sessions(u), which iterates
\* that set, reaches every session of u).
C11_LiveSessionInUserSet ==
    \A c \in created :
        GetSession(c.session_id).some =>
            /\ Live(redis, now, UserSessionsKey(c.user_id))
            /\ c.session_id \in redis[UserSessionsKey(c.user_id)].val

----------------------------------------------------------------------------
(* Policy engine *)

MaxPolicies == 2

\* condition values of the three shapes of the policy document
BoolCond(key, b) == [key |-> key, kind |-> "bool", b |-> b]
RangeCond(key, min, max) == [key |-> key, kind |-> "range", min |-> min, max |-> max]
ListCond(key, items) == [key |-> key, kind |-> "list", items |-> items]

\* policies a document can hold; conditions keep the order of the document
PolicyPool ==
    {[id |-> "account_read", resource |-> "account", action |-> "read",
      conditions |-> <<BoolCond("user_verified", TRUE),
                       RangeCond("risk_score", Nothing, Some(60)),
                       ListCond("roles", {"account_holder", "admin"})>>],
     [id |-> "account_any", resource |-> "account", action |-> "*",
      conditions |-> <<RangeCond("risk_score", Some(30), Some(95)),
                       BoolCond("user_verified", TRUE)>>],
     [id |-> "admin_all", resource |-> "*", action |-> "*",
      conditions |-> <<ListCond("roles", {"admin"})>>],
     [id |-> "public_read", resource |-> "*", action |-> "read",
      conditions |-> <<>>]}

RECURSIVE SeqsOver(_, _)
\* the sequences of at most n distinct elements of S
SeqsOver(S, n) ==
    IF n = 0 THEN {<<>>}
    ELSE LET shorter == SeqsOver(S, n - 1) IN
         shorter \cup {Append(q, x) : q \in shorter, x \in S}

\* the documents _load_policies can return: policy lists without repeated ids
PolicyDocs ==
    {d \in SeqsOver(PolicyPool, MaxPolicies) :
        \A i, j \in DOMAIN d : i # j => d[i].id # d[j].id}

\* the (resource, action) pairs asked about: those of the policies and others
Requests ==
    {<<"account", "read">>, <<"account", "*">>, <<"*", "*">>, <<"*", "read">>,
     <<"account", "create">>, <<"transaction", "create">>}

\* a request context: each attribute absent or of the type its conditions expect
Context(user_verified, risk_score, roles) ==
    [k \in {x \in {"user_verified"} : user_verified.some}
           \cup {x \in {"risk_score"} : risk_score.some}
           \cup {x \in {"roles"} : roles.some} |->
        CASE k = "user_verified" -> user_verified.v
          [] k = "risk_score" -> risk_score.v
          [] k = "roles" -> roles.v]

Contexts ==
    {Context(uv, rs, ro) :
        uv \in {Nothing, Some(TRUE), Some(FALSE)},
        rs \in {Nothing, Some(20), Some(70), Some(90)},
        ro \in {Nothing, Some({"account_holder"}), Some({"admin"})}}

\* _find_matching_policies' test without the wildcard
MatchesExact(policy, resource, action) ==
    policy.resource = resource /\ policy.action = action

\* _find_matching_policies: exact match or the wildcard, in declaration order
Matches(policy, resource, action) ==
    /\ policy.resource = resource \/ policy.resource = "*"
    /\ policy.action = action \/ policy.action = "*"

FindMatchingPolicies(resource, action) ==
    SelectSeq(policies, LAMBDA policy : Matches(policy, resource, action))

\* the check _evaluate_conditions makes for one condition: the reason of the
\* denial, or None when the condition passes
ConditionFailure(c, context) ==
    LET present == c.key \in DOMAIN context IN
    CASE c.kind = "bool" ->
            IF ~present \/ context[c.key] # c.b
            THEN Some(<<"Condition not met: ", c.key>>) ELSE Nothing
      [] c.kind = "range" ->
            IF c.max.some /\ (~present \/ context[c.key] > c.max.v)
            THEN Some(<<c.key, " exceeds maximum: ", c.max.v>>)
            ELSE IF c.min.some /\ (~present \/ context[c.key] < c.min.v)
            THEN Some(<<c.key, " below minimum: ", c.min.v>>)
            ELSE Nothing
      [] c.kind = "list" ->
            IF ~\E val \in c.items : val \in (IF present THEN context[c.key] ELSE {})
            THEN Some(<<"Required ", c.key, " not present">>) ELSE Nothing

\* _evaluate_conditions: the first failing condition denies
EvaluateConditions(policy, context) ==
    LET failing == {i \in DOMAIN policy.conditions :
                       ConditionFailure(policy.conditions[i], context).some} IN
    IF failing = {}
    THEN [allowed |-> TRUE, reason |-> <<"All policy conditions satisfied">>,
          policy_id |-> Some(policy.id)]
    ELSE LET first == CHOOSE i \in failing : \A j \in failing : i <= j IN
         [allowed |-> FALSE,
          reason |-> ConditionFailure(policy.conditions[first], context).v,
          policy_id |-> Some(policy.id)]

\* the names _get_failed_conditions appends for one condition
FailedNames(c, context) ==
    LET present == c.key \in DOMAIN context IN
    CASE c.kind = "bool" ->
            IF ~present \/ context[c.key] # c.b THEN <<<<c.key>>>> ELSE <<>>
      [] c.kind = "range" ->
            (IF c.max.some /\ (~present \/ context[c.key] > c.max.v)
             THEN <<<<c.key, " (exceeds max)">>>> ELSE <<>>)
            \o (IF c.min.some /\ (~present \/ context[c.key] < c.min.v)
                THEN <<<<c.key, " (below min)">>>> ELSE <<>>)
      [] c.kind = "list" ->
            IF ~\E val \in c.items : val \in (IF present THEN context[c.key] ELSE {})
            THEN <<<<c.key>>>> ELSE <<>>

RECURSIVE FailedFrom(_, _, _)
FailedFrom(conditions, i, context) ==
    IF i > Len(conditions) THEN <<>>
    ELSE FailedNames(conditions[i], context) \o FailedFrom(conditions, i + 1, context)

\* _get_failed_conditions stopping at the first condition that fails
GetFirstFailedCondition(policy, context) ==
    LET all == FailedFrom(policy.conditions, 1, context) IN
    IF all = <<>> THEN <<>> ELSE <<all[1]>>

\* _get_failed_conditions(policy, context)
GetFailedConditions(policy, context) == FailedFrom(policy.conditions, 1, context)

\* evaluate_policy returning the decision of the last matching policy that
\* allows instead of the first
EvaluatePolicyLast(resource, action, context) ==
    LET matching == FindMatchingPolicies(resource, action)
        allowing == {i \in DOMAIN matching : EvaluateConditions(matching[i], context).allowed} IN
    IF Len(matching) = 0
    THEN [allowed |-> FALSE, reason |-> <<"No matching policy found">>, policy_id |-> Nothing]
    ELSE IF allowing # {}
    THEN EvaluateConditions(matching[CHOOSE i \in allowing : \A j \in allowing : j <= i], context)
    ELSE [allowed |-> FALSE, reason |-> <<"Policy conditions not met">>,
          policy_id |-> Some(matching[1].id),
          failed_conditions |-> GetFailedConditions(matching[1], context)]

\* evaluate_policy(resource, action, context)
EvaluatePolicy(resource, action, context) ==
    LET matching == FindMatchingPolicies(resource, action)
        allowing == {i \in DOMAIN matching : EvaluateConditions(matching[i], context).allowed} IN
    IF Len(matching) = 0
    THEN [allowed |-> FALSE, reason |-> <<"No matching policy found">>, policy_id |-> Nothing]
    ELSE IF allowing # {}
    THEN EvaluateConditions(matching[CHOOSE i \in allowing : \A j \in allowing : i <= j], context)
    ELSE [allowed |-> FALSE, reason |-> <<"Policy conditions not met">>,
          policy_id |-> Some(matching[1].id),
          failed_conditions |-> GetFailedConditions(matching[1], context)]

\* everything but the loaded policies and the last return value
notPolicy == <<now, tz, redis, issued, blCalled, revoked, loginLog, failRun, proc, results,
               created, invalidated>>

evaluate_policy(resource, action, context) ==
    /\ ret' = [op |-> "evaluate_policy", resource |-> resource, action |-> action,
               context |-> context, res |-> EvaluatePolicy(resource, action, context)]
    /\ UNCHANGED <<policies, notPolicy>>

\* the engine is constructed on a policy document, then queried
InitPolicy == InitStore /\ tz = 0 /\ policies \in PolicyDocs

NextPolicy ==
    \E q \in Requests, c \in Contexts : evaluate_policy(q[1], q[2], c)

SpecPolicy == InitPolicy /\ [][NextPolicy]_vars

\* the match predicates of the policy document (section 4.6), one per shape
Satisfied(c, context) ==
    /\ c.key \in DOMAIN context
    /\ CASE c.kind = "bool" -> context[c.key] = c.b
         [] c.kind = "range" -> /\ c.min.some => context[c.key] >= c.min.v
                                /\ c.max.some => context[c.key] <= c.max.v
         [] c.kind = "list" -> c.items \cap context[c.key] # {}

AllSatisfied(policy, context) ==
    \A i \in DOMAIN policy.conditions : Satisfied(policy.conditions[i], context)

\* positions, in declaration order, of the policies whose patterns fit
Fitting(resource, action) ==
    {i \in DOMAIN policies : /\ policies[i].resource \in {resource, "*"}
                             /\ policies[i].action \in {action, "*"}}

\* positions of the fitting policies whose conditions the context satisfies
Granting(resource, action, context) ==
    {i \in Fitting(resource, action) : AllSatisfied(policies[i], context)}

Lowest(S) == CHOOSE i \in S : \A j \in S : i <= j

\* C12 as stated: for every loaded policy P and context C satisfying all of P's
\* conditions, evaluate_policy(P.resource, P.action, C) allows with policy_id = P.id.
C12_SatisfiedPolicyIsReturned ==
    ret.op = "evaluate_policy" =>
        \A i \in DOMAIN policies :
            (/\ policies[i].resource = ret.resource
             /\ policies[i].action = ret.action
             /\ AllSatisfied(policies[i], ret.context)) =>
                ret.res.allowed /\ ret.res.policy_id = Some(policies[i].id)

\* C12 amended: for every loaded policy P and context C satisfying all of P's
\* conditions, evaluate_policy(P.resource, P.action, C) allows, and policy_id is
\* the id of the first policy in declaration order that fits (P.resource,
\* P.action) and is satisfied by C: P.id when no earlier policy is.
C12_FirstSatisfiedPolicyIsReturned ==
    ret.op = "evaluate_policy" =>
        \A i \in DOMAIN policies :
            (/\ policies[i].resource = ret.resource
             /\ policies[i].action = ret.action
             /\ AllSatisfied(policies[i], ret.context)) =>
                LET g == Granting(ret.resource, ret.action, ret.context) IN
                /\ ret.res.allowed
                /\ ret.res.policy_id = Some(policies[Lowest(g)].id)
                /\ (\A j \in g : i <= j) => ret.res.policy_id = Some(policies[i].id)

\* evaluate_policy was asked for a policy's own (resource, action) with a
\* context satisfying it, and answered with an earlier policy's id
C12_Witness ==
    /\ ret.op = "evaluate_policy"
    /\ ret.res.allowed
    /\ \E i \in DOMAIN policies :
          /\ policies[i].resource = ret.resource
          /\ policies[i].action = ret.action
          /\ AllSatisfied(policies[i], ret.context)
          /\ ret.res.policy_id # Some(policies[i].id)

\* C13: evaluate_policy(resource, action, C) allows iff some policy whose
\* patterns fit (equality or *) has every condition satisfied by C; the
\* policy_id is then that of the first such policy in declaration order.
C13_AllowedIffSomePolicyGrants ==
    ret.op = "evaluate_policy" =>
        LET g == Granting(ret.resource, ret.action, ret.context) IN
        /\ ret.res.allowed <=> g # {}
        /\ ret.res.allowed => ret.res.policy_id = Some(policies[Lowest(g)].id)

\* a request was allowed by a wildcard policy that is not the first fitting one
C13_Witness ==
    /\ ret.op = "evaluate_policy"
    /\ ret.res.allowed
    /\ LET g == Granting(ret.resource, ret.action, ret.context) IN
       /\ Lowest(g) # Lowest(Fitting(ret.resource, ret.action))
       /\ policies[Lowest(g)].resource = "*"
       /\ ret.resource # "*"

----------------------------------------------------------------------------
(* Risk analyzer *)

RiskStepSecs == 3600
RiskHorizonSecs == 3600

\* risk_weights with a weight that lowers the score
RiskWeightsWithDiscount ==
    [unknown_device |-> 30, unknown_location |-> 20, unusual_time |-> 15,
     high_transaction_amount |-> -25, multiple_failed_attempts |-> 40,
     geo_mismatch |-> 35, tor_or_vpn |-> 50, suspicious_ip |-> 30,
     rapid_requests |-> 25, device_change |-> 20]

\* self.risk_weights
RiskWeights ==
    [unknown_device |-> 30, unknown_location |-> 20, unusual_time |-> 15,
     high_transaction_amount |-> 25, multiple_failed_attempts |-> 40,
     geo_mismatch |-> 35, tor_or_vpn |-> 50, suspicious_ip |-> 30,
     rapid_requests |-> 25, device_change |-> 20]

RiskUser == <<"user_", "a">>
RiskDevice == <<"d">>
Locations == {[country |-> "US", city |-> "NYC"], [country |-> "FR", city |-> "Paris"]}

UserLocationsKey(user_id) == <<"user_locations:">> \o user_id
LastLocationKey(user_id) == <<"last_location:">> \o user_id
VelocityKey(user_id) == <<"request_velocity:">> \o user_id
RiskHistoryKey(user_id) == <<"risk_history:">> \o user_id
DeviceKey(user_id, device_id) == <<"device:">> \o user_id \o <<":">> \o device_id

\* f"{country}:{city}"
LocationStr(location) == <<location.country, ":", location.city>>

\* datetime.utcnow().time() in seconds since midnight; the clock starts at 00:00 UTC
TimeOfDay(t) == (t \div TicksPerSec) % 86400

\* dict.get(k, default)
GetOr(d, k, default) == IF k \in DOMAIN d THEN d[k] ELSE default

\* The store calls of one request, in the order they are made. Each check
\* reads keys no earlier call of the same request writes, so what it finds
\* and the calls it makes are given against the store r the request started on.
Call(cmd, key, arg) == [cmd |-> cmd, key |-> key, arg |-> arg]

\* the store after one call
Exec(r, call) ==
    CASE call.cmd \in {"SMEMBERS", "GET"} -> r
      [] call.cmd = "SADD" -> RedisSadd(r, call.key, call.arg)
      [] call.cmd = "SETEX" -> RedisSetex(r, call.key, call.arg.seconds, call.arg.value)
      [] call.cmd = "INCR" -> RedisIncr(r, call.key)
      [] call.cmd = "EXPIRE" -> RedisExpire(r, call.key, call.arg)
      [] call.cmd = "LPUSH" -> RedisLpush(r, call.key, call.arg)
      [] call.cmd = "LTRIM" -> RedisLtrim(r, call.key, call.arg)

RECURSIVE ExecAll(_, _, _)
\* the store after the first n calls of the list (each store is evaluated once)
ExecAll(r, calls, n) ==
    IF n = 0 THEN r
    ELSE CHOOSE after \in {Exec(before, calls[n]) : before \in {ExecAll(r, calls, n - 1)}} : TRUE

\* _is_unknown_location: SMEMBERS, then SADD of a location not in the set
IsUnknownLocation(r, context) ==
    IF ~("location" \in DOMAIN context /\ "user_id" \in DOMAIN context)
    THEN [hit |-> FALSE, calls |-> <<>>]
    ELSE LET key == UserLocationsKey(context["user_id"])
             known_locations == IF Live(r, now, key) THEN r[key].val ELSE {}
             location_str == LocationStr(context["location"]) IN
         IF location_str \in known_locations
         THEN [hit |-> FALSE, calls |-> <<Call("SMEMBERS", key, None)>>]
         ELSE [hit |-> TRUE,
               calls |-> <<Call("SMEMBERS", key, None), Call("SADD", key, location_str)>>]

\* _is_unusual_time: time(1, 0) <= now <= time(6, 0)
IsUnusualTime == 3600 <= TimeOfDay(now) /\ TimeOfDay(now) <= 21600

\* _has_recent_failed_attempts: GET, int(attempts or 0) >= 3
HasRecentFailedAttempts(r, user_id) ==
    LET key == FailedKey(user_id) IN
    [hit |-> (IF Live(r, now, key) THEN r[key].val ELSE 0) >= 3,
     calls |-> <<Call("GET", key, None)>>]

\* _detect_geo_mismatch: GET; SETEX for an hour when nothing is stored
DetectGeoMismatch(r, context) ==
    IF ~("location" \in DOMAIN context /\ "user_id" \in DOMAIN context)
    THEN [hit |-> FALSE, calls |-> <<>>]
    ELSE LET key == LastLocationKey(context["user_id"]) IN
         IF ~Live(r, now, key)
         THEN [hit |-> FALSE,
               calls |-> <<Call("GET", key, None),
                           Call("SETEX", key,
                                [seconds |-> 3600,
                                 value |-> [location |-> context["location"],
                                            timestamp |-> now]])>>]
         ELSE [hit |-> /\ r[key].val.location.country # context["location"].country
                       /\ now - r[key].val.timestamp < 6 * 3600 * TicksPerSec,
               calls |-> <<Call("GET", key, None)>>]

\* _is_vpn_or_tor: the placeholder answers False for every address
IsVpnOrTor(context) == FALSE

\* _detect_rapid_requests: INCR, EXPIRE 60 on the first request, count > 30
DetectRapidRequests(r, user_id) ==
    LET key == VelocityKey(user_id)
        count == (IF Live(r, now, key) THEN r[key].val ELSE 0) + 1 IN
    [hit |-> count > 30,
     calls |-> <<Call("INCR", key, None)>>
               \o (IF count = 1 THEN <<Call("EXPIRE", key, 60)>> ELSE <<>>)]

\* _store_risk_assessment: LPUSH, LTRIM 0 99, EXPIRE 30 days
StoreRiskAssessment(user_id, score, factors) ==
    LET key == RiskHistoryKey(user_id) IN
    <<Call("LPUSH", key, [score |-> score, factors |-> factors, timestamp |-> now]),
      Call("LTRIM", key, 100),
      Call("EXPIRE", key, 2592000)>>

RECURSIVE WeightSum(_)
\* risk_score after the weights of the listed factors were added
WeightSum(factors) ==
    IF factors = <<>> THEN 0 ELSE RiskWeights[Head(factors)] + WeightSum(Tail(factors))

Min(a, b) == IF a < b THEN a ELSE b

\* calculate_request_risk(context) on store r, where the store call numbered
\* fail raises (fail = 0, or beyond the calls made: none does) and leaves the
\* store as the calls before it left it: [raised, score, factors, store, calls]
CalculateRequestRisk(r, context, fail) ==
    LET has_user == "user_id" \in DOMAIN context
        none == [hit |-> FALSE, calls |-> <<>>]
        loc == IsUnknownLocation(r, context)
        failed == IF has_user THEN HasRecentFailedAttempts(r, context["user_id"]) ELSE none
        geo == DetectGeoMismatch(r, context)
        rapid == IF has_user THEN DetectRapidRequests(r, context["user_id"]) ELSE none
        factors ==
            (IF ~GetOr(context, "device_trusted", FALSE) THEN <<"unknown_device">> ELSE <<>>)
            \o (IF loc.hit THEN <<"unknown_location">> ELSE <<>>)
            \o (IF IsUnusualTime THEN <<"unusual_time">> ELSE <<>>)
            \o (IF GetOr(context, "transaction_amount", 0) > 10000
                THEN <<"high_transaction_amount">> ELSE <<>>)
            \o (IF failed.hit THEN <<"multiple_failed_attempts">> ELSE <<>>)
            \o (IF geo.hit THEN <<"geo_mismatch">> ELSE <<>>)
            \o (IF IsVpnOrTor(context) THEN <<"tor_or_vpn">> ELSE <<>>)
            \o (IF rapid.hit THEN <<"rapid_requests">> ELSE <<>>)
        final_score == Min(WeightSum(factors), 100)
        calls == loc.calls \o failed.calls \o geo.calls \o rapid.calls
                 \o (IF has_user
                     THEN StoreRiskAssessment(context["user_id"], final_score, factors)
                     ELSE <<>>)
        raised == fail \in 1..Len(calls) IN
    [raised |-> raised, score |-> final_score, factors |-> factors,
     store |-> ExecAll(r, calls, IF raised THEN fail - 1 ELSE Len(calls)),
     calls |-> IF raised THEN fail ELSE Len(calls)]

MaxAssessments == 2

\* a request context of the risk analyzer: a dict holding the attributes given
RiskContext(user_id, device_trusted, device_id, location, amount) ==
    [k \in {x \in {"user_id"} : user_id.some}
           \cup {x \in {"device_trusted"} : device_trusted.some}
           \cup {x \in {"device_id"} : device_id.some}
           \cup {x \in {"location"} : location.some}
           \cup {x \in {"transaction_amount"} : amount.some} |->
        CASE k = "user_id" -> user_id.v
          [] k = "device_trusted" -> device_trusted.v
          [] k = "device_id" -> device_id.v
          [] k = "location" -> location.v
          [] k = "transaction_amount" -> amount.v]

RiskContexts ==
    {RiskContext(Some(RiskUser), dev[1], dev[2], loc, amount) :
        dev \in {<<Some(TRUE), Nothing>>, <<Some(TRUE), Some(RiskDevice)>>,
                 <<Some(FALSE), Some(RiskDevice)>>},
        loc \in {Nothing} \cup {Some(l) : l \in Locations},
        amount \in {Nothing, Some(20000)}}
    \cup {RiskContext(Nothing, Nothing, Nothing, Nothing, Some(500))}

\* the store after three failed logins of the user at the start of the clock
\* (track_failed_attempt: INCR, EXPIRE on the first)
FailedSeed == FailedKey(RiskUser) :> [val |-> 3, exp |-> ExpireSeconds * TicksPerSec]

\* the store after thirty requests of the user from a trusted device at the
\* start of the clock: the velocity counter and thirty assessments of score 0
VelocitySeed ==
    (VelocityKey(RiskUser) :> [val |-> 30, exp |-> 60 * TicksPerSec])
    @@ (RiskHistoryKey(RiskUser) :>
            [val |-> [i \in 1..30 |-> [score |-> 0, factors |-> <<>>, timestamp |-> 0]],
             exp |-> 2592000 * TicksPerSec])

RiskStores ==
    {<<>>, FailedSeed, VelocitySeed, FailedSeed @@ VelocitySeed}

notRisk == <<tz, policies, issued, blCalled, revoked, loginLog, failRun, proc, created,
             invalidated>>

\* calculate_request_risk(context), every store call succeeding
calculate_request_risk(context) ==
    /\ Len(results) < MaxAssessments
    /\ \E risk \in {CalculateRequestRisk(redis, context, 0)} :
       /\ redis' = risk.store
       /\ results' = Append(results, risk.score)
       /\ ret' = [op |-> "calculate_request_risk", context |-> context, score |-> risk.score,
                  factors |-> risk.factors]
       /\ UNCHANGED <<now, notRisk>>

\* the risk_factors table of the policy document (config/policies.json): the
\* weights of the risk table
RiskFactors ==
    [unknown_device |-> 30, unknown_location |-> 20, unusual_time |-> 15,
     high_transaction_amount |-> 25, multiple_failed_attempts |-> 40,
     geo_mismatch |-> 35, tor_or_vpn |-> 50, rapid_requests |-> 25, device_change |-> 20]

\* the risk_indicators dicts handed to the policy engine; one name is not in
\* the table
RiskIndicators ==
    [{"unknown_device", "unknown_location", "tor_or_vpn", "not_listed"} -> BOOLEAN]

RECURSIVE ScoreOver(_, _)
\* score after the loop over the items of risk_indicators named in todo
ScoreOver(risk_indicators, todo) ==
    IF todo = {} THEN 0
    ELSE LET indicator == CHOOSE x \in todo : TRUE IN
         (IF risk_indicators[indicator] /\ indicator \in DOMAIN RiskFactors
          THEN RiskFactors[indicator] ELSE 0)
         + ScoreOver(risk_indicators, todo \ {indicator})

\* PolicyEngine.calculate_risk_score(risk_indicators)
CalculateRiskScore(risk_indicators) ==
    Min(ScoreOver(risk_indicators, DOMAIN risk_indicators), 100)

calculate_risk_score(risk_indicators) ==
    /\ Len(results) < MaxAssessments
    /\ results' = Append(results, CalculateRiskScore(risk_indicators))
    /\ ret' = [op |-> "calculate_risk_score", risk_indicators |-> risk_indicators,
               score |-> CalculateRiskScore(risk_indicators)]
    /\ UNCHANGED <<now, redis, notRisk>>

\* The record register_device writes (device_info is opaque and left out)
DeviceData(user_id, device_id) ==
    [k \in {"device_id", "user_id", "trust_score", "registered_at", "last_seen",
            "access_count", "trusted"} |->
        CASE k = "device_id" -> device_id
          [] k = "user_id" -> user_id
          [] k = "trust_score" -> 50
          [] k = "registered_at" -> now
          [] k = "last_seen" -> now
          [] k = "access_count" -> 0
          [] OTHER -> FALSE]

\* DeviceVerifier.register_device: SETEX of a fresh device record for 30 days,
\* whatever is stored under the key
register_device(user_id, device_id) ==
    /\ redis' = RedisSetex(redis, DeviceKey(user_id, device_id), 2592000,
                           DeviceData(user_id, device_id))
    /\ ret' = [op |-> "register_device"]
    /\ UNCHANGED <<now, results, notRisk>>

InitRisk ==
    /\ now = 0
    /\ tz = 0
    /\ policies = <<>>
    /\ redis \in RiskStores
    /\ issued = {}
    /\ blCalled = {}
    /\ revoked = {}
    /\ loginLog = <<>>
    /\ failRun = [u \in Usernames |-> 0]
    /\ proc = [p \in Procs |-> Idle]
    /\ results = <<>>
    /\ created = {}
    /\ invalidated = {}
    /\ ret = NoRet

NextRisk ==
    \/ \E context \in RiskContexts : calculate_request_risk(context)
    \/ \E risk_indicators \in RiskIndicators : calculate_risk_score(risk_indicators)
    \/ register_device(RiskUser, RiskDevice)
    \/ Pass(RiskStepSecs * TicksPerSec, RiskHorizonSecs * TicksPerSec)

SpecRisk == InitRisk /\ [][NextRisk]_vars

\* The indicators of the risk table that hold for a request against store r
HoldingIndicators(r, context) ==
    LET u == context["user_id"]
        has_user == "user_id" \in DOMAIN context
        has_location == has_user /\ "location" \in DOMAIN context
        stored(k) == IF Live(r, now, k) THEN Some(r[k].val) ELSE Nothing IN
    {i \in DOMAIN RiskWeights :
        CASE i = "unknown_device" ->
                ~("device_trusted" \in DOMAIN context /\ context["device_trusted"])
          [] i = "unknown_location" ->
                /\ has_location
                /\ \/ ~stored(UserLocationsKey(u)).some
                   \/ LocationStr(context["location"]) \notin stored(UserLocationsKey(u)).v
          [] i = "unusual_time" -> TimeOfDay(now) \in 3600..21600
          [] i = "high_transaction_amount" ->
                "transaction_amount" \in DOMAIN context /\ context["transaction_amount"] > 10000
          [] i = "multiple_failed_attempts" ->
                has_user /\ stored(FailedKey(u)).some /\ stored(FailedKey(u)).v >= 3
          [] i = "geo_mismatch" ->
                /\ has_location
                /\ stored(LastLocationKey(u)).some
                /\ stored(LastLocationKey(u)).v.location.country # context["location"].country
                /\ now - stored(LastLocationKey(u)).v.timestamp < 6 * 3600 * TicksPerSec
          [] i = "tor_or_vpn" -> FALSE
          [] i = "suspicious_ip" -> FALSE
          [] i = "rapid_requests" ->
                /\ has_user
                /\ (IF stored(VelocityKey(u)).some THEN stored(VelocityKey(u)).v ELSE 0) + 1 > 30
          [] i = "device_change" ->
                /\ has_user
                /\ "device_id" \in DOMAIN context
                /\ ~stored(DeviceKey(u, context["device_id"])).some}

RECURSIVE SumOfWeights(_)
SumOfWeights(S) ==
    IF S = {} THEN 0
    ELSE LET i == CHOOSE x \in S : TRUE IN RiskWeights[i] + SumOfWeights(S \ {i})

\* C20: calculate_request_risk returns min(100, the sum of the table weights of
\* exactly those indicators, device_change among them, that hold for the
\* request against the stored state), a value in 0..100.
C20_RiskScoreIsCappedWeightSum ==
    \A context \in RiskContexts :
        LET score == CalculateRequestRisk(redis, context, 0).score IN
        /\ score \in 0..100
        /\ score = Min(100, SumOfWeights(HoldingIndicators(redis, context)))

\* what the code does compute: the capped sum over the table without its
\* device_change row
RiskScoreOverEvaluatedIndicators ==
    \A context \in RiskContexts :
        LET score == CalculateRequestRisk(redis, context, 0).score IN
        /\ score \in 0..100
        /\ score = Min(100, SumOfWeights(HoldingIndicators(redis, context) \ {"device_change"}))

----------------------------------------------------------------------------
(* Policy decision point and policy enforcement point *)

MaxDecisions == 2

\* the store calls one calculate_request_risk can make: SMEMBERS, SADD, GET,
\* GET, SETEX, INCR, EXPIRE, LPUSH, LTRIM, EXPIRE
RiskStoreCalls == 10

\* A classification whose thresholds belong to the lower level
GetRiskLevelInclusive(risk_score) ==
    IF risk_score <= 30 THEN "low"
    ELSE IF risk_score <= 60 THEN "medium"
    ELSE IF risk_score <= 80 THEN "high"
    ELSE "critical"

\* _get_risk_level
GetRiskLevel(risk_score) ==
    IF risk_score < 30 THEN "low"
    ELSE IF risk_score < 60 THEN "medium"
    ELSE IF risk_score < 80 THEN "high"
    ELSE "critical"

\* _log_decision: one line of the application log, nothing in the store
LogDecision(decision) ==
    [level |-> IF decision["allowed"] THEN "INFO" ELSE "WARNING",
     message |-> IF decision["allowed"] THEN "Authorization granted"
                 ELSE "Authorization denied"]

StepUp ==
    [requires_additional_verification |-> TRUE,
     additional_verification_methods |-> <<"mfa", "security_question">>]

\* make_decision after the risk score, asking for step-up from a score of 80
DecideAtEighty(risk, user_id, resource, action, request_context) ==
    LET enriched_context ==
            [risk_score |-> risk.score, decision_timestamp |-> now] @@ request_context
        decision ==
            [risk_score |-> risk.score, risk_level |-> GetRiskLevel(risk.score),
             user_id |-> user_id, resource |-> resource, action |-> action]
            @@ EvaluatePolicy(resource, action, enriched_context) IN
    IF risk.raised THEN [raised |-> TRUE, store |-> risk.store, calls |-> risk.calls]
    ELSE [raised |-> FALSE, store |-> risk.store, calls |-> risk.calls,
          log |-> <<LogDecision(decision)>>,
          decision |-> IF risk.score >= 80 /\ decision["allowed"]
                       THEN StepUp @@ decision ELSE decision]

\* A make_decision in which the caller's context entries win over the
\* computed ones
DecideCallerFirst(risk, user_id, resource, action, request_context) ==
    LET enriched_context ==
            request_context @@ [risk_score |-> risk.score, decision_timestamp |-> now]
        decision ==
            [risk_score |-> risk.score, risk_level |-> GetRiskLevel(risk.score),
             user_id |-> user_id, resource |-> resource, action |-> action]
            @@ EvaluatePolicy(resource, action, enriched_context) IN
    IF risk.raised THEN [raised |-> TRUE, store |-> risk.store, calls |-> risk.calls]
    ELSE [raised |-> FALSE, store |-> risk.store, calls |-> risk.calls,
          log |-> <<LogDecision(decision)>>,
          decision |-> IF risk.score > 80 /\ decision["allowed"]
                       THEN StepUp @@ decision ELSE decision]

\* make_decision after calculate_request_risk has returned risk or raised
Decide(risk, user_id, resource, action, request_context) ==
    LET enriched_context ==
            [risk_score |-> risk.score, decision_timestamp |-> now] @@ request_context
        decision ==
            [risk_score |-> risk.score, risk_level |-> GetRiskLevel(risk.score),
             user_id |-> user_id, resource |-> resource, action |-> action]
            @@ EvaluatePolicy(resource, action, enriched_context) IN
    IF risk.raised THEN [raised |-> TRUE, store |-> risk.store, calls |-> risk.calls]
    ELSE [raised |-> FALSE, store |-> risk.store, calls |-> risk.calls,
          log |-> <<LogDecision(decision)>>,
          decision |-> IF risk.score > 80 /\ decision["allowed"]
                       THEN StepUp @@ decision ELSE decision]

\* make_decision(user_id, resource, action, request_context) on store r
MakeDecision(r, user_id, resource, action, request_context, fail) ==
    CHOOSE made \in {Decide(risk, user_id, resource, action, request_context) :
                        risk \in {CalculateRequestRisk(r, request_context, fail)}} : TRUE

\* enforce after make_decision, without the step-up branch
EnforceMadeNoStepUp(made) ==
    IF made.raised
    THEN [kind |-> "error", store |-> made.store, calls |-> made.calls, decision |-> Nothing]
    ELSE LET decision == made.decision IN
         [store |-> made.store, calls |-> made.calls, decision |-> Some(decision)] @@
         (IF ~decision["allowed"]
          THEN [kind |-> "raise", status_code |-> 403,
                detail |-> [error |-> "Access Denied", reason |-> decision["reason"],
                            policy_id |-> GetOr(decision, "policy_id", Nothing),
                            failed_conditions |-> GetOr(decision, "failed_conditions", <<>>),
                            risk_level |-> GetOr(decision, "risk_level", None)]]
          ELSE [kind |-> "return", value |-> decision])

\* enforce after make_decision has returned or raised: the decision returned,
\* the HTTPException raised, or the store's error passing through
EnforceMade(made) ==
    IF made.raised
    THEN [kind |-> "error", store |-> made.store, calls |-> made.calls, decision |-> Nothing]
    ELSE LET decision == made.decision IN
         [store |-> made.store, calls |-> made.calls, decision |-> Some(decision)] @@
         (IF ~decision["allowed"]
          THEN [kind |-> "raise", status_code |-> 403,
                detail |-> [error |-> "Access Denied", reason |-> decision["reason"],
                            policy_id |-> GetOr(decision, "policy_id", Nothing),
                            failed_conditions |-> GetOr(decision, "failed_conditions", <<>>),
                            risk_level |-> GetOr(decision, "risk_level", None)]]
          ELSE IF GetOr(decision, "requires_additional_verification", FALSE)
          THEN [kind |-> "raise", status_code |-> 401,
                detail |-> [error |-> "Additional Verification Required",
                            reason |-> "High risk activity detected",
                            required_methods |->
                                GetOr(decision, "additional_verification_methods", <<>>),
                            risk_score |-> GetOr(decision, "risk_score", None)]]
          ELSE [kind |-> "return", value |-> decision])

\* enforce(user_id, resource, action, request_context) on store r
Enforce(r, user_id, resource, action, request_context, fail) ==
    CHOOSE out \in {EnforceMade(made) :
                       made \in {MakeDecision(r, user_id, resource, action,
                                              request_context, fail)}} : TRUE

\* check_permission after make_decision, looking at allowed only
CheckMadeAllowedOnly(made) ==
    IF made.raised
    THEN [kind |-> "return", value |-> FALSE, store |-> made.store, calls |-> made.calls,
          decision |-> Nothing]
    ELSE [kind |-> "return", store |-> made.store, calls |-> made.calls,
          decision |-> Some(made.decision),
          value |-> made.decision["allowed"]]

\* check_permission after make_decision, answering True when it raised
CheckMadeFailOpen(made) ==
    IF made.raised
    THEN [kind |-> "return", value |-> TRUE, store |-> made.store, calls |-> made.calls,
          decision |-> Nothing]
    ELSE [kind |-> "return", store |-> made.store, calls |-> made.calls,
          decision |-> Some(made.decision),
          value |-> /\ made.decision["allowed"]
                    /\ ~GetOr(made.decision, "requires_additional_verification", FALSE)]

\* check_permission after make_decision has returned or raised: every
\* exception is caught and answered False
CheckMade(made) ==
    IF made.raised
    THEN [kind |-> "return", value |-> FALSE, store |-> made.store, calls |-> made.calls,
          decision |-> Nothing]
    ELSE [kind |-> "return", store |-> made.store, calls |-> made.calls,
          decision |-> Some(made.decision),
          value |-> /\ made.decision["allowed"]
                    /\ ~GetOr(made.decision, "requires_additional_verification", FALSE)]

\* check_permission(user_id, resource, action, request_context) on store r
CheckPermission(r, user_id, resource, action, request_context, fail) ==
    CHOOSE out \in {CheckMade(made) :
                       made \in {MakeDecision(r, user_id, resource, action,
                                              request_context, fail)}} : TRUE

\* the policy document of the deployment checked here
PdpPolicies ==
    <<CHOOSE p \in PolicyPool : p.id = "account_read",
      CHOOSE p \in PolicyPool : p.id = "account_any">>

PdpRequests == {<<"account", "read">>, <<"transaction", "create">>}

\* request contexts handed to the enforcement point by the routes
PdpContext(user_verified, device_trusted, amount, location) ==
    [user_verified |-> user_verified, roles |-> {"account_holder"}]
    @@ RiskContext(Some(RiskUser), Some(device_trusted), Some(RiskDevice), location, amount)

PdpContexts ==
    {PdpContext(TRUE, TRUE, Nothing, Nothing),
     PdpContext(TRUE, FALSE, Some(20000), Nothing),
     PdpContext(TRUE, FALSE, Some(20000), Some(CHOOSE l \in Locations : l.country = "US")),
     PdpContext(FALSE, TRUE, Nothing, Nothing)}

\* the store call the environment made fail during a request that started
\* calls store calls: fail when that call was reached, else 0 (none failed)
FailedCall(fail, calls) == IF fail \in 1..calls THEN fail ELSE 0

notPdp == <<now, tz, policies, issued, blCalled, revoked, loginLog, failRun, proc, created,
            invalidated>>

make_decision(resource, action, request_context, fail) ==
    /\ Len(results) < MaxDecisions
    /\ \E made \in {MakeDecision(redis, RiskUser, resource, action, request_context, fail)} :
       /\ redis' = made.store
       /\ results' = Append(results, FailedCall(fail, made.calls))
       /\ ret' = [op |-> "make_decision", fail |-> FailedCall(fail, made.calls),
                  decision |-> IF made.raised THEN Nothing ELSE Some(made.decision),
                  outcome |-> IF made.raised THEN [kind |-> "error"]
                              ELSE [kind |-> "return", value |-> made.decision]]
       /\ UNCHANGED notPdp

enforce(resource, action, request_context, fail) ==
    /\ Len(results) < MaxDecisions
    /\ \E out \in {Enforce(redis, RiskUser, resource, action, request_context, fail)} :
       /\ redis' = out.store
       /\ results' = Append(results, FailedCall(fail, out.calls))
       /\ ret' = [op |-> "enforce", fail |-> FailedCall(fail, out.calls),
                  decision |-> out.decision,
                  outcome |-> [k \in DOMAIN out \ {"store", "calls", "decision"} |-> out[k]]]
       /\ UNCHANGED notPdp

check_permission(resource, action, request_context, fail) ==
    /\ Len(results) < MaxDecisions
    /\ \E out \in {CheckPermission(redis, RiskUser, resource, action, request_context, fail)} :
       /\ redis' = out.store
       /\ results' = Append(results, FailedCall(fail, out.calls))
       /\ ret' = [op |-> "check_permission", fail |-> FailedCall(fail, out.calls),
                  decision |-> out.decision,
                  outcome |-> [kind |-> out.kind, value |-> out.value]]
       /\ UNCHANGED notPdp

InitPdp ==
    /\ now = 0
    /\ tz = 0
    /\ policies = PdpPolicies
    /\ redis \in {<<>>, VelocitySeed}
    /\ issued = {}
    /\ blCalled = {}
    /\ revoked = {}
    /\ loginLog = <<>>
    /\ failRun = [u \in Usernames |-> 0]
    /\ proc = [p \in Procs |-> Idle]
    /\ results = <<>>
    /\ created = {}
    /\ invalidated = {}
    /\ ret = NoRet

NextPdp ==
    \/ \E q \in PdpRequests, c \in PdpContexts, fail \in 0..RiskStoreCalls :
          make_decision(q[1], q[2], c, fail)
    \/ \E q \in PdpRequests, c \in PdpContexts, fail \in 0..RiskStoreCalls :
          enforce(q[1], q[2], c, fail)
    \/ \E q \in PdpRequests, c \in PdpContexts, fail \in 0..RiskStoreCalls :
          check_permission(q[1], q[2], c, fail)
    \/ Pass(RiskStepSecs * TicksPerSec, RiskHorizonSecs * TicksPerSec)

SpecPdp == InitPdp /\ [][NextPdp]_vars

\* the audit events of the day list
AuditEvents == IF Live(redis, now, AuditDayKey) THEN redis[AuditDayKey].val ELSE <<>>

\* whether a decision carries the step-up requirement
StepUpRequired(decision) == GetOr(decision, "requires_additional_verification", FALSE)

\* C15: a make_decision or enforce that produces a decision appends exactly
\* one audit event before it returns or rejects, of severity WARNING or
\* higher when the decision denies.
C15_DecisionIsAudited ==
    [][(ret'.op \in {"make_decision", "enforce"} /\ ret'.decision.some) =>
          /\ Len(AuditEvents') = Len(AuditEvents) + 1
          /\ ~ret'.decision.v["allowed"] =>
                Head(AuditEvents').severity \in {"warning", "error", "critical"}]_vars

\* C16: a decision carries requires_additional_verification = true, with the
\* methods [mfa, security_question], iff it allows and its risk_score is above
\* 80; a denial carries no step-up requirement.
C16_StepUpIffAllowedAndHighRisk ==
    (ret.op \in {"make_decision", "enforce", "check_permission"} /\ ret.decision.some) =>
        LET decision == ret.decision.v IN
        /\ "requires_additional_verification" \in DOMAIN decision
              <=> (decision["allowed"] /\ decision["risk_score"] > 80)
        /\ "requires_additional_verification" \in DOMAIN decision =>
              /\ decision["requires_additional_verification"] = TRUE
              /\ decision["additional_verification_methods"] = <<"mfa", "security_question">>
        /\ ~decision["allowed"] => "additional_verification_methods" \notin DOMAIN decision

C16_Witness ==
    /\ ret.op = "make_decision"
    /\ ret.decision.some
    /\ StepUpRequired(ret.decision.v)
    /\ ret.decision.v["risk_score"] > 80

\* C17: enforce returns the decision iff it allows without step-up, raises
\* the step-up rejection (401, required methods, risk score) iff it allows
\* with step-up, and raises the forbidden rejection (403, reason, policy id,
\* failed conditions, risk level) iff it denies.
C17_EnforceOutcomes ==
    (ret.op = "enforce" /\ ret.decision.some) =>
        LET decision == ret.decision.v
            out == ret.outcome
            allowed == decision["allowed"]
            step_up == StepUpRequired(decision) IN
        /\ out.kind \in {"return", "raise"}
        /\ out.kind = "return" <=> (allowed /\ ~step_up)
        /\ out.kind = "return" => out.value = decision
        /\ (out.kind = "raise" /\ out.status_code = 401) <=> (allowed /\ step_up)
        /\ (out.kind = "raise" /\ out.status_code = 401) =>
              /\ out.detail.required_methods = decision["additional_verification_methods"]
              /\ out.detail.risk_score = decision["risk_score"]
        /\ (out.kind = "raise" /\ out.status_code = 403) <=> ~allowed
        /\ (out.kind = "raise" /\ out.status_code = 403) =>
              /\ out.detail.reason = decision["reason"]
              /\ out.detail.policy_id = decision["policy_id"]
              /\ out.detail.failed_conditions =
                    (IF "failed_conditions" \in DOMAIN decision
                     THEN decision["failed_conditions"] ELSE <<>>)
              /\ out.detail.risk_level = decision["risk_level"]

C17_Witness ==
    /\ ret.op = "enforce"
    /\ ret.decision.some
    /\ ret.decision.v["allowed"]
    /\ ret.outcome.kind = "raise"
    /\ ret.outcome.status_code = 401

\* C18: from any state and for any request, check_permission returns true
\* exactly when enforce run from that state would return a decision, and
\* returns false, never raising, otherwise.
C18_CheckPermissionMatchesEnforce ==
    \A q \in PdpRequests, c \in PdpContexts, fail \in 0..RiskStoreCalls :
        \A checked \in {CheckPermission(redis, RiskUser, q[1], q[2], c, fail)},
           enforced \in {Enforce(redis, RiskUser, q[1], q[2], c, fail)} :
        /\ checked.kind = "return"
        /\ checked.value \in BOOLEAN
        /\ checked.value <=> enforced.kind = "return"

C18_Witness ==
    /\ ret.op = "check_permission"
    /\ ret.decision.some
    /\ ret.decision.v["allowed"]
    /\ ret.outcome.value = FALSE

\* C19: when a store call made during make_decision fails, enforce returns no
\* decision to its caller and check_permission returns false.
C19_NoFailOpen ==
    (ret.op \in {"enforce", "check_permission"} /\ ret.fail > 0) =>
        /\ ret.op = "enforce" => ret.outcome.kind \notin {"return"}
        /\ ret.op = "check_permission" => ret.outcome = [kind |-> "return", value |-> FALSE]

C19_Witness ==
    /\ ret.op = "check_permission"
    /\ ret.fail > 3
    /\ ret.outcome.value = FALSE

----------------------------------------------------------------------------
(* Relations between risk assessments *)

\* the set of the factors of an assessment
FactorSet(factors) == {factors[i] : i \in DOMAIN factors}

\* C21: the risk score is monotonic in the indicator set. For
\* calculate_risk_score, setting one indicator of the dict from false to true
\* never lowers the score; for calculate_request_risk, of two assessments the
\* one whose indicators include the other's never has the lower score.
C21_RiskScoreMonotonic ==
    /\ ret.op = "calculate_risk_score" =>
          \A indicator \in DOMAIN ret.risk_indicators :
              ~ret.risk_indicators[indicator] =>
                  CalculateRiskScore([ret.risk_indicators EXCEPT ![indicator] = TRUE])
                      >= ret.score
    /\ ret.op = "calculate_request_risk" =>
          \A context \in RiskContexts :
              \A risk \in {CalculateRequestRisk(redis, context, 0)} :
                  /\ FactorSet(ret.factors) \subseteq FactorSet(risk.factors) =>
                        ret.score <= risk.score
                  /\ FactorSet(risk.factors) \subseteq FactorSet(ret.factors) =>
                        risk.score <= ret.score

\* two assessments one indicator apart, the larger one capped at 100
C21_Witness ==
    /\ ret.op = "calculate_request_risk"
    /\ ret.score < 100
    /\ \E context \in RiskContexts :
          \E risk \in {CalculateRequestRisk(redis, context, 0)} :
              /\ FactorSet(ret.factors) \subseteq FactorSet(risk.factors)
              /\ Cardinality(FactorSet(risk.factors) \ FactorSet(ret.factors)) = 1
              /\ WeightSum(risk.factors) > 100
              /\ risk.score = 100

\* what a store holds under the keys the risk analyzer writes for a user
RiskState(r, user_id) ==
    [k \in {UserLocationsKey(user_id), LastLocationKey(user_id), VelocityKey(user_id),
            RiskHistoryKey(user_id)} |->
        IF Live(r, now, k) THEN Some(r[k].val) ELSE Nothing]

\* C22: executing calculate_request_risk twice for the same request leaves the
\* velocity counter, the known-location set, the last-known location and the
\* risk-history list as executing it once does.
C22_RiskSideEffectsIdempotent ==
    \A context \in RiskContexts :
        \A once \in {CalculateRequestRisk(redis, context, 0).store} :
            \A twice \in {CalculateRequestRisk(once, context, 0).store} :
                RiskState(twice, RiskUser) = RiskState(once, RiskUser)

\* ---------------------------------------------------------------------------
\* Device verifier (src/verification/device_verifier.py)
\* ---------------------------------------------------------------------------

DeviceStepDays == 7
DeviceHorizonDays == 35
MaxAccessCount == 3

DayTicks == 86400 * TicksPerSec

\* DeviceVerifier._calculate_trust_score at time t; timedelta.days is the
\* number of whole days
CalculateTrustScore(device, t) ==
    LET age_days == (t - device["registered_at"]) \div DayTicks
        access_count == GetOr(device, "access_count", 0)
    IN  Min(50
            + (IF age_days > 30 THEN 20 ELSE IF age_days > 7 THEN 10 ELSE 0)
            + (IF access_count > 100 THEN 15
               ELSE IF access_count > 50 THEN 10
               ELSE IF access_count > 10 THEN 5 ELSE 0)
            + (IF GetOr(device, "trusted", FALSE) THEN 15 ELSE 0),
            100)

\* The record verify_device writes back for a stored record
VerifiedDevice(device) ==
    LET seen == [device EXCEPT !["last_seen"] = now, !["access_count"] = @ + 1]
        trust_score == CalculateTrustScore(seen, now)
        scored == [seen EXCEPT !["trust_score"] = trust_score]
    IN  IF trust_score >= 70 /\ ~scored["trusted"]
        THEN ("trusted_at" :> now) @@ [scored EXCEPT !["trusted"] = TRUE]
        ELSE scored

\* DeviceVerifier.verify_device
verify_device(user_id, device_id) ==
    /\ \E device_json \in {RedisGet(DeviceKey(user_id, device_id))} :
          IF ~device_json.some
          THEN /\ redis' = redis
               /\ ret' = [op |-> "verify_device", known |-> FALSE, trusted |-> FALSE,
                          trust_score |-> 0, access_count |-> 0, age |-> 0]
          ELSE /\ device_json.v["access_count"] < MaxAccessCount
               /\ \E device \in {VerifiedDevice(device_json.v)} :
                     /\ redis' = RedisSetex(redis, DeviceKey(user_id, device_id), 2592000,
                                            device)
                     /\ ret' = [op |-> "verify_device", known |-> TRUE,
                                trusted |-> device["trusted"],
                                trust_score |-> device["trust_score"],
                                access_count |-> device["access_count"],
                                age |-> now - device["registered_at"]]
    /\ UNCHANGED <<now, results, notRisk>>

\* DeviceVerifier.revoke_device_trust
revoke_device_trust(user_id, device_id) ==
    /\ \E device_json \in {RedisGet(DeviceKey(user_id, device_id))} :
          IF ~device_json.some
          THEN /\ redis' = redis
               /\ ret' = [op |-> "revoke_device_trust", ok |-> FALSE]
          ELSE /\ redis' = RedisSetex(redis, DeviceKey(user_id, device_id), 2592000,
                              ("revoked_at" :> now) @@
                              [device_json.v EXCEPT !["trusted"] = FALSE,
                                                    !["trust_score"] = 0])
               /\ ret' = [op |-> "revoke_device_trust", ok |-> TRUE]
    /\ UNCHANGED <<now, results, notRisk>>

\* DeviceVerifier.remove_device
remove_device(user_id, device_id) ==
    /\ redis' = RedisDelete(redis, DeviceKey(user_id, device_id))
    /\ ret' = [op |-> "remove_device", ok |-> Live(redis, now, DeviceKey(user_id, device_id))]
    /\ UNCHANGED <<now, results, notRisk>>

InitDevice ==
    /\ now = 0
    /\ tz = 0
    /\ policies = <<>>
    /\ redis = <<>>
    /\ issued = {}
    /\ blCalled = {}
    /\ revoked = {}
    /\ loginLog = <<>>
    /\ failRun = [u \in Usernames |-> 0]
    /\ proc = [p \in Procs |-> Idle]
    /\ results = <<>>
    /\ created = {}
    /\ invalidated = {}
    /\ ret = NoRet

NextDevice ==
    \/ register_device(RiskUser, RiskDevice)
    \/ verify_device(RiskUser, RiskDevice)
    \/ revoke_device_trust(RiskUser, RiskDevice)
    \/ remove_device(RiskUser, RiskDevice)
    \/ Pass(DeviceStepDays * DayTicks, DeviceHorizonDays * DayTicks)

SpecDevice == InitDevice /\ [][NextDevice]_vars

\* The stored record of the device, if any
StoredDevice(r, t) ==
    IF Live(r, t, DeviceKey(RiskUser, RiskDevice))
    THEN Some(r[DeviceKey(RiskUser, RiskDevice)].val) ELSE Nothing

\* The trust score the formula with ">= 30 days" and ">= 7 days" gives
TrustScoreFromAgeAtLeast(age_days, access_count, trusted) ==
    Min(100,
        50 + (IF age_days >= 30 THEN 20 ELSE IF age_days >= 7 THEN 10 ELSE 0)
           + (IF access_count > 100 THEN 15
              ELSE IF access_count > 50 THEN 10
              ELSE IF access_count > 10 THEN 5 ELSE 0)
           + (IF trusted THEN 15 ELSE 0))

TrustAges == {0, 6, 7, 8, 29, 30, 31, 400}
TrustAccessCounts == {0, 10, 11, 50, 51, 100, 101, 1000}

\* C23: for every device age in days, access count and trusted flag the trust
\* score is min(100, 50 + (20 if the age is at least 30 days, else 10 if at
\* least 7 days) + (15 / 10 / 5 for an access count above 100 / 50 / 10) +
\* (15 if already trusted)), for records of any shape and for the score a
\* verify_device call reports.
C23_TrustScoreFormula ==
    /\ \A age_days \in TrustAges, access_count \in TrustAccessCounts, trusted \in BOOLEAN :
          CalculateTrustScore([registered_at |-> now - age_days * DayTicks,
                               access_count |-> access_count, trusted |-> trusted], now)
              = TrustScoreFromAgeAtLeast(age_days, access_count, trusted)
    /\ (ret.op = "verify_device" /\ ret.known) =>
          \E was_trusted \in BOOLEAN :
              ret.trust_score = TrustScoreFromAgeAtLeast(ret.age \div DayTicks,
                                                         ret.access_count, was_trusted)

\* C24: a successful revoke_device_trust leaves the record untrusted with
\* trust score 0 and a revoked_at stamp, and a later verify_device or
\* register_device keeps that record and its stamp.
C24_RevokedRecordPersists ==
    [][/\ (ret'.op = "revoke_device_trust" /\ ret'.ok) =>
            \E device \in {StoredDevice(redis', now')} :
                /\ device.some
                /\ ~device.v["trusted"]
                /\ device.v["trust_score"] = 0
                /\ "revoked_at" \in DOMAIN device.v
                /\ device.v["revoked_at"] = now
       /\ (/\ ret'.op \in {"verify_device", "register_device"}
           /\ StoredDevice(redis, now).some
           /\ "revoked_at" \in DOMAIN StoredDevice(redis, now).v) =>
            \E device \in {StoredDevice(redis', now')} :
                /\ device.some
                /\ "revoked_at" \in DOMAIN device.v
                /\ device.v["revoked_at"] = StoredDevice(redis, now).v["revoked_at"]]_vars

\* C25: a register_device call for a device whose record is stored, arriving
\* after verify_device calls, leaves the trusted flag, the trust score, the
\* access count and the registration time of the record as they were.
C25_RegisterDeviceRetryIsSafe ==
    [][(ret'.op = "register_device" /\ StoredDevice(redis, now).some) =>
            \E before \in {StoredDevice(redis, now).v}, after \in {StoredDevice(redis', now').v} :
                \A field \in {"trusted", "trust_score", "access_count", "registered_at"} :
                    after[field] = before[field]]_vars

\* ---------------------------------------------------------------------------
\* Key manager (src/encryption/key_manager.py)
\* ---------------------------------------------------------------------------

KeyStepSecs == 1
KeyHorizonSecs == 1

\* Key ids handed to store_key, set_active_key and revoke_key by callers
KeyIds == { <<"k1">> }
\* Key material: the key handed to store_key and the one generate_key draws
CallerKey == "m"
GeneratedKeys == {"g"}

KeyName(key_id) == <<"encryption_key:">> \o key_id
ActiveKeyName == <<"encryption_key:", "active">>

\* rotate_key: new_key_id = f"key_{int(datetime.utcnow().timestamp())}"
RotationKeyId(t) == <<"key_", t \div TicksPerSec>>
RotationKeyIds == {RotationKeyId(s * TicksPerSec) : s \in 0..KeyHorizonSecs}
AllKeyIds == KeyIds \cup RotationKeyIds

\* SET key value (no expiry)
RedisSet(r, k, v) ==
    [x \in DOMAIN r \cup {k} |-> IF x = k THEN [val |-> v, exp |-> NoTTL] ELSE r[x]]

\* The record store_key writes (created_at and metadata are read by no
\* operation modelled here and are left out)
KeyData(key_id, key) == [key_id |-> key_id, key |-> key, status |-> "active"]

notKeys == <<now, tz, policies, issued, blCalled, revoked, loginLog, failRun, results, created,
             invalidated>>

\* KeyManager.get_key against store r
GetKey(r, key_id) ==
    IF ~Live(r, now, KeyName(key_id)) THEN Nothing
    ELSE IF r[KeyName(key_id)].val.status # "active" THEN Nothing
    ELSE Some(r[KeyName(key_id)].val.key)

\* KeyManager.get_active_key against store r
GetActiveKey(r) ==
    IF ~Live(r, now, ActiveKeyName) THEN Nothing
    ELSE IF GetKey(r, r[ActiveKeyName].val).some
         THEN Some([key_id |-> r[ActiveKeyName].val, key |-> GetKey(r, r[ActiveKeyName].val).v])
         ELSE Nothing

\* KeyManager._update_key_status as one step (as revoke_key runs it)
UpdateKeyStatus(r, key_id, status) ==
    IF Live(r, now, KeyName(key_id))
    THEN RedisSet(r, KeyName(key_id), [r[KeyName(key_id)].val EXCEPT !.status = status])
    ELSE r

\* KeyManager.store_key
store_key(key_id, key) ==
    /\ redis' = RedisSet(redis, KeyName(key_id), KeyData(key_id, key))
    /\ ret' = [op |-> "store_key", key_id |-> key_id]
    /\ UNCHANGED <<proc, notKeys>>

\* KeyManager.set_active_key
set_active_key(key_id) ==
    /\ IF GetKey(redis, key_id).some
       THEN /\ redis' = RedisSet(redis, ActiveKeyName, key_id)
            /\ ret' = [op |-> "set_active_key", key_id |-> key_id, ok |-> TRUE]
       ELSE /\ redis' = redis
            /\ ret' = [op |-> "set_active_key", key_id |-> key_id, ok |-> FALSE]
    /\ UNCHANGED <<proc, notKeys>>

\* KeyManager.revoke_key
revoke_key(key_id) ==
    /\ redis' = UpdateKeyStatus(redis, key_id, "revoked")
    /\ ret' = [op |-> "revoke_key", key_id |-> key_id]
    /\ UNCHANGED <<proc, notKeys>>

\* rotate_key is a sequence of store calls; between any two of them another
\* process may run.  Position of process p after a step of rotate_key:
RotateAt(p, pc, new_key_id, old) ==
    [proc EXCEPT ![p] = [pc |-> pc, new_key_id |-> new_key_id, old |-> old]]

RotateReturn(p) ==
    [op |-> "rotate_key", new_key_id |-> proc[p].new_key_id, old |-> proc[p].old]

\* rotate_key, store_key(new_key_id, generate_key())
rk_store(p) ==
    /\ proc[p].pc = "idle"
    /\ \E new_key \in GeneratedKeys :
          redis' = RedisSet(redis, KeyName(RotationKeyId(now)),
                            KeyData(RotationKeyId(now), new_key))
    /\ proc' = RotateAt(p, "rk_get_active", RotationKeyId(now), Nothing)
    /\ ret' = NoRet
    /\ UNCHANGED notKeys

\* rotate_key, get_active_key: GET of the pointer
rk_get_active(p) ==
    /\ proc[p].pc = "rk_get_active"
    /\ proc' = IF Live(redis, now, ActiveKeyName)
               THEN RotateAt(p, "rk_get_old", proc[p].new_key_id,
                             Some(redis[ActiveKeyName].val))
               ELSE RotateAt(p, "rk_check_new", proc[p].new_key_id, Nothing)
    /\ ret' = NoRet
    /\ UNCHANGED <<redis, notKeys>>

\* rotate_key, get_active_key: get_key of the key the pointer named
rk_get_old(p) ==
    /\ proc[p].pc = "rk_get_old"
    /\ proc' = RotateAt(p, "rk_check_new", proc[p].new_key_id,
                        IF GetKey(redis, proc[p].old.v).some THEN proc[p].old ELSE Nothing)
    /\ ret' = NoRet
    /\ UNCHANGED <<redis, notKeys>>

\* rotate_key, set_active_key: get_key of the new key; a key that is not
\* readable ends set_active_key
rk_check_new(p) ==
    /\ proc[p].pc = "rk_check_new"
    /\ IF GetKey(redis, proc[p].new_key_id).some
       THEN /\ proc' = [proc EXCEPT ![p].pc = "rk_set_active"]
            /\ ret' = NoRet
       ELSE IF proc[p].old.some
            THEN /\ proc' = [proc EXCEPT ![p].pc = "rk_update_old"]
                 /\ ret' = NoRet
            ELSE /\ proc' = [proc EXCEPT ![p] = Idle]
                 /\ ret' = RotateReturn(p)
    /\ UNCHANGED <<redis, notKeys>>

\* rotate_key, set_active_key: SET of the pointer
rk_set_active(p) ==
    /\ proc[p].pc = "rk_set_active"
    /\ redis' = RedisSet(redis, ActiveKeyName, proc[p].new_key_id)
    /\ IF proc[p].old.some
       THEN /\ proc' = [proc EXCEPT ![p].pc = "rk_update_old"]
            /\ ret' = NoRet
       ELSE /\ proc' = [proc EXCEPT ![p] = Idle]
            /\ ret' = RotateReturn(p)
    /\ UNCHANGED notKeys

\* rotate_key, _update_key_status(old_key_id, "rotated")
rk_update_old(p) ==
    /\ proc[p].pc = "rk_update_old"
    /\ redis' = UpdateKeyStatus(redis, proc[p].old.v, "rotated")
    /\ proc' = [proc EXCEPT ![p] = Idle]
    /\ ret' = RotateReturn(p)
    /\ UNCHANGED notKeys

InitKeys ==
    /\ now = 0
    /\ tz = 0
    /\ policies = <<>>
    /\ redis = <<>>
    /\ issued = {}
    /\ blCalled = {}
    /\ revoked = {}
    /\ loginLog = <<>>
    /\ failRun = [u \in Usernames |-> 0]
    /\ proc = [p \in Procs |-> Idle]
    /\ results = <<>>
    /\ created = {}
    /\ invalidated = {}
    /\ ret = NoRet

NextKeys ==
    \/ \E key_id \in KeyIds : store_key(key_id, CallerKey)
    \/ \E key_id \in AllKeyIds : set_active_key(key_id)
    \/ \E key_id \in AllKeyIds : revoke_key(key_id)
    \/ \E p \in Procs : rk_store(p)
    \/ \E p \in Procs : rk_get_active(p)
    \/ \E p \in Procs : rk_get_old(p)
    \/ \E p \in Procs : rk_check_new(p)
    \/ \E p \in Procs : rk_set_active(p)
    \/ \E p \in Procs : rk_update_old(p)
    \/ Pass(KeyStepSecs * TicksPerSec, KeyHorizonSecs * TicksPerSec)

SpecKeys == InitKeys /\ [][NextKeys]_vars

\* The key records whose status is active
ActiveRecords(r) ==
    {key_id \in AllKeyIds :
        Live(r, now, KeyName(key_id)) /\ r[KeyName(key_id)].val.status = "active"}

\* C26: once set_active_key has succeeded (the pointer is set), exactly one
\* key is designated active: the pointer names a stored key whose status is
\* active, get_active_key returns it and no other key record has status
\* active.
C26_ExactlyOneActiveKey ==
    Live(redis, now, ActiveKeyName) =>
        /\ ActiveRecords(redis) = {redis[ActiveKeyName].val}
        /\ GetActiveKey(redis).some
        /\ GetActiveKey(redis).v.key_id = redis[ActiveKeyName].val

\* C27: after rotate_key has completed, get_key of the previously active key
\* returns its key material as long as that key is stored and not revoked;
\* get_key yields none only for a revoked or missing key.
C27_RotatedKeysStayReadable ==
    /\ \A key_id \in AllKeyIds :
          GetKey(redis, key_id).some
              <=> (/\ Live(redis, now, KeyName(key_id))
                   /\ redis[KeyName(key_id)].val.status # "revoked")
    /\ (/\ ret.op = "rotate_key"
        /\ ret.old.some
        /\ Live(redis, now, KeyName(ret.old.v))
        /\ redis[KeyName(ret.old.v)].val.status = "rotated") =>
          GetKey(redis, ret.old.v) = Some(redis[KeyName(ret.old.v)].val.key)

\* ---------------------------------------------------------------------------
\* Counters under concurrent callers: failed_attempts:{username} and
\* request_velocity:{user_id}
\* ---------------------------------------------------------------------------

CounterStepSecs == 900
CounterHorizonSecs == 1800
MaxRequests == 3

CounterUser == <<"a">>

Velocity(user_id) ==
    IF Live(redis, now, VelocityKey(user_id)) THEN redis[VelocityKey(user_id)].val ELSE 0

\* RiskAnalyzer._detect_rapid_requests, first store call: INCR.  results holds
\* the counts INCR has returned since the counter was last absent.
drr_incr(p, user_id) ==
    /\ proc[p].pc = "idle"
    /\ Velocity(user_id) < MaxRequests
    /\ \E count \in {RedisIncr(redis, VelocityKey(user_id))[VelocityKey(user_id)].val} :
          /\ redis' = RedisIncr(redis, VelocityKey(user_id))
          /\ results' = IF count = 1 THEN <<count>> ELSE Append(results, count)
          /\ IF count = 1
             THEN /\ proc' = [proc EXCEPT ![p] = [pc |-> "drr_expire", user_id |-> user_id,
                                                  count |-> count]]
                  /\ ret' = NoRet
             ELSE /\ proc' = proc
                  /\ ret' = [op |-> "detect_rapid_requests", count |-> count,
                             hit |-> count > 30]
    /\ UNCHANGED <<now, failRun, notAuth>>

\* _detect_rapid_requests, second store call: EXPIRE on the first request
drr_expire(p) ==
    /\ proc[p].pc = "drr_expire"
    /\ redis' = RedisExpire(redis, VelocityKey(proc[p].user_id), 60)
    /\ proc' = [proc EXCEPT ![p] = Idle]
    /\ ret' = [op |-> "detect_rapid_requests", count |-> proc[p].count,
               hit |-> proc[p].count > 30]
    /\ UNCHANGED <<now, failRun, results, notAuth>>

NextCounters ==
    \/ \E p \in Procs : tfa_incr(p, CounterUser)
    \/ \E p \in Procs : tfa_expire(p)
    \/ \E p \in Procs : drr_incr(p, RiskUser)
    \/ \E p \in Procs : drr_expire(p)
    \/ Pass(CounterStepSecs * TicksPerSec, CounterHorizonSecs * TicksPerSec)

SpecCounters == InitUtc /\ [][NextCounters]_vars

AllCallsCompleted == \A p \in Procs : proc[p].pc = "idle"

\* C28: concurrent track_failed_attempt calls on a counter that starts absent
\* and does not expire in between return the counts 1, 2, ..., k without
\* duplicates, the stored counter is k, and once all calls have completed the
\* key carries a TTL; the same for the request_velocity counter.
C28_CountersAreAtomic ==
    /\ ret.op = "track_failed_attempt" => ret.res.attempts = ret.nth
    /\ Live(redis, now, FailedKey(CounterUser)) =>
          /\ redis[FailedKey(CounterUser)].val = failRun[CounterUser]
          /\ AllCallsCompleted => redis[FailedKey(CounterUser)].exp # NoTTL
    /\ ret.op = "detect_rapid_requests" => ret.count \in 1..Len(results)
    /\ Live(redis, now, VelocityKey(RiskUser)) =>
          /\ redis[VelocityKey(RiskUser)].val = Len(results)
          /\ \A i \in 1..Len(results) : results[i] = i
          /\ AllCallsCompleted => redis[VelocityKey(RiskUser)].exp # NoTTL

\* a second call has returned 2 while the first caller has not yet set the
\* expiry: the key carries no TTL although a call has completed
C28_Witness ==
    /\ ret.op = "track_failed_attempt"
    /\ ret.res.attempts = 2
    /\ \E p \in Procs : proc[p].pc = "tfa_expire"
    /\ redis[FailedKey(CounterUser)].exp = NoTTL

\* ---------------------------------------------------------------------------
\* Risk level of a decision
\* ---------------------------------------------------------------------------

\* The levels whose score interval holds the score
LevelsOf(score) ==
    {level \in {"low", "medium", "high", "critical"} :
        \/ level = "low" /\ score < 30
        \/ level = "medium" /\ 30 <= score /\ score < 60
        \/ level = "high" /\ 60 <= score /\ score < 80
        \/ level = "critical" /\ score >= 80}

\* C29: the risk level is low for a score below 30, medium from 30 to below
\* 60, high from 60 to below 80 and critical from 80 on, for every score in
\* 0..100 and for the score and level of every decision make_decision
\* returns.
C29_RiskLevelThresholds ==
    /\ \A score \in 0..100 : LevelsOf(score) = {GetRiskLevel(score)}
    /\ (ret.op \in {"make_decision", "enforce", "check_permission"} /\ ret.decision.some) =>
          LevelsOf(ret.decision.v["risk_score"]) = {ret.decision.v["risk_level"]}

\* make_decision has returned a decision made at a score of exactly 80,
\* classified critical
C29_Witness ==
    /\ ret.op = "make_decision"
    /\ ret.decision.some
    /\ ret.decision.v["risk_score"] = 80
    /\ ret.decision.v["risk_level"] = "critical"

\* ---------------------------------------------------------------------------
\* Server-side revocation of refresh tokens
\* ---------------------------------------------------------------------------

\* C30: after revoke_refresh_token(u, d) or revoke_all_user_tokens(u) has
\* completed, verify_token(R, "refresh") returns no claims for every refresh
\* token R issued for (u, d) before the revocation.
C30_RevokedRefreshTokenIsRejected ==
    \A i \in issued :
        (i.kind = "refresh" /\ i.tok \in revoked) => ~VerifyToken(i.tok, "refresh").some

\* ---------------------------------------------------------------------------
\* verify_mfa_token under two concurrent callers
\* ---------------------------------------------------------------------------

\* The clock stays inside the lifetime of a replay mark written at 0
MfaRaceStepSecs == 10
MfaRaceHorizonSecs == 20

NextMfaRace ==
    \/ \E p \in Procs, s \in Secrets, c \in Codes : mfa_exists(p, s, c)
    \/ \E p \in Procs : mfa_setex(p)
    \/ Pass(MfaRaceStepSecs * TicksPerSec, MfaRaceHorizonSecs * TicksPerSec)

SpecMfaRace == InitUtc /\ [][NextMfaRace]_vars

\* The calls of verify_mfa_token(secret, token) that have returned true
Accepted(secret, token) ==
    {i \in DOMAIN results : results[i].secret = secret /\ results[i].token = token}

\* C31: of two concurrent verify_mfa_token(S, C) calls presenting the same
\* valid code, however their store calls interleave, at most one returns
\* true.
C31_ConcurrentMfaAcceptedOnce ==
    \A secret \in Secrets, token \in Codes : Cardinality(Accepted(secret, token)) <= 1

\* ---------------------------------------------------------------------------
\* The lock lifts
\* ---------------------------------------------------------------------------

\* A track_failed_attempt call that is cancelled (or whose process dies)
\* after its INCR and before its EXPIRE
tfa_cancel(p) ==
    /\ proc[p].pc = "tfa_expire"
    /\ proc' = [proc EXCEPT ![p] = Idle]
    /\ ret' = NoRet
    /\ UNCHANGED <<now, redis, failRun, results, notAuth>>

\* A call takes no time that counts against the steps of the clock: the
\* clock advances between calls
LockClock ==
    /\ \A p \in Procs : proc[p].pc = "idle"
    /\ Pass(LockStepSecs * TicksPerSec, LockHorizonSecs * TicksPerSec)

\* A call that has made its INCR goes on to its EXPIRE or is cancelled
LockCallEnds == \E p \in Procs : tfa_expire(p) \/ tfa_cancel(p)

NextLockLive ==
    \/ \E p \in Procs : tfa_incr(p, CounterUser)
    \/ \E p \in Procs : tfa_expire(p)
    \/ \E p \in Procs : tfa_cancel(p)
    \/ is_account_locked(CounterUser)
    \/ LockClock

\* Calls end and the clock runs on, up to the horizon of the model
SpecLockLive ==
    InitUtc /\ [][NextLockLive]_vars /\ WF_vars(LockClock) /\ WF_vars(LockCallEnds)

\* C32: a lock lifts: an account that is locked while at least 1800 s of the
\* model's time remain is eventually not locked, in every execution, also one
\* in which a track_failed_attempt call is cancelled between its INCR and its
\* EXPIRE.
C32_LockAlwaysLifts ==
    (IsAccountLocked(CounterUser)
        /\ now + LockoutDuration * TicksPerSec <= LockHorizonSecs * TicksPerSec)
      ~> ~IsAccountLocked(CounterUser)

\* ---------------------------------------------------------------------------
\* The failed-attempt counter as the risk analyzer reads it
\* ---------------------------------------------------------------------------

\* login: user_id = f"user_{data.username}"
UserIdOf(username) == <<"user_">> \o username

\* Requests of the logged-in user that carry no location
RiskAuthContexts ==
    {context \in RiskContexts : "user_id" \in DOMAIN context /\ "location" \notin DOMAIN context}

NextRiskAuth ==
    \/ \E p \in Procs : tfa_incr(p, CounterUser)
    \/ \E p \in Procs : tfa_expire(p)
    \/ \E context \in RiskAuthContexts : calculate_request_risk(context)
    \/ Pass(LockStepSecs * TicksPerSec, LockHorizonSecs * TicksPerSec)

SpecRiskAuth == InitUtc /\ [][NextRiskAuth]_vars

\* C33: while the counter of three or more track_failed_attempt(username)
\* calls is live, calculate_request_risk for a request of that user (user_id
\* as login assigns it) reports multiple_failed_attempts and adds its weight.
C33_FailedAttemptsReachRisk ==
    \A username \in Usernames :
        (/\ ret.op = "calculate_request_risk"
         /\ ret.context["user_id"] = UserIdOf(username)
         /\ Counter(username) >= 3) =>
            "multiple_failed_attempts" \in FactorSet(ret.factors)

\* ---------------------------------------------------------------------------
\* Last known location
\* ---------------------------------------------------------------------------

\* C34: a calculate_request_risk call whose location country differs from the
\* stored last-known country (it reports geo_mismatch) leaves the current
\* location and time as the last known location of the user, so that the next
\* request from that country is compared with it.
C34_LastLocationFollowsCountry ==
    (ret.op = "calculate_request_risk" /\ "geo_mismatch" \in FactorSet(ret.factors)) =>
        \E stored \in {RiskState(redis, ret.context["user_id"])[LastLocationKey(ret.context["user_id"])]} :
            /\ stored.some
            /\ stored.v.location = ret.context["location"]
            /\ stored.v.timestamp = now

\* ---------------------------------------------------------------------------
\* Frame of revoke_all_user_tokens
\* ---------------------------------------------------------------------------

\* The mirror entry of (user_id, device_id) in store r at time t
MirrorEntry(r, t, user_id, device_id) ==
    IF Live(r, t, RefreshKey(user_id, device_id))
    THEN Some(r[RefreshKey(user_id, device_id)].val) ELSE Nothing

\* C35: revoke_all_user_tokens(u) leaves the mirror entry of every other user
\* v and every device d as it was.
C35_RevokeAllTouchesOneUser ==
    [][\A u \in UserIds :
          revoke_all_user_tokens(u) =>
              \A v \in UserIds \ {u}, d \in DeviceIds :
                  MirrorEntry(redis', now', v, d) = MirrorEntry(redis, now, v, d)]_vars

\* ---------------------------------------------------------------------------
\* Caller-supplied risk_score
\* ---------------------------------------------------------------------------

\* Risk scores and a time stamp a caller may put into request_context
SuppliedScores == {0, 50, 100}

Supplied(request_context, risk_score) ==
    [risk_score |-> risk_score, decision_timestamp |-> 0] @@ request_context

\* C36: a risk_score or decision_timestamp the caller puts into
\* request_context does not reach policy evaluation: the request with it and
\* the request without it receive the same decision, made on the score the
\* risk analyzer computed in that call.
C36_SuppliedRiskScoreIsIgnored ==
    \A q \in PdpRequests, c \in PdpContexts, risk_score \in SuppliedScores :
        \A plain \in {MakeDecision(redis, RiskUser, q[1], q[2], c, 0)},
           forged \in {MakeDecision(redis, RiskUser, q[1], q[2], Supplied(c, risk_score), 0)} :
        /\ forged.decision = plain.decision
        /\ forged.store = plain.store
        /\ forged.decision["risk_score"] = CalculateRequestRisk(redis, c, 0).score

\* make_decision has acted, and for some request the decision denies on the
\* computed score although the score the caller supplies would satisfy the
\* policy
C36_Witness ==
    /\ ret.op = "make_decision"
    /\ \E q \in PdpRequests, c \in PdpContexts, risk_score \in SuppliedScores :
          /\ ~MakeDecision(redis, RiskUser, q[1], q[2], Supplied(c, risk_score), 0).decision["allowed"]
          /\ EvaluatePolicy(q[1], q[2], Supplied(c, risk_score))["allowed"]

\* ---------------------------------------------------------------------------
\* get_user_permissions (src/policy/pep.py)
\* ---------------------------------------------------------------------------

PermissionActions == <<"read", "write", "create", "delete", "execute">>
PermissionResources == <<"account", "transaction">>

\* The (resource, action) pairs in the order the two loops visit them
RECURSIVE PairsOf(_, _)
PairsOf(resources, actions) ==
    IF resources = <<>> THEN <<>>
    ELSE [i \in DOMAIN actions |-> <<Head(resources), actions[i]>>]
         \o PairsOf(Tail(resources), actions)

\* check_permission for each pair in turn, each on the store the previous one
\* left
RECURSIVE PermissionsFrom(_, _, _, _, _)
PermissionsFrom(r, user_id, pairs, request_context, values) ==
    IF pairs = <<>> THEN [store |-> r, values |-> values]
    ELSE CHOOSE out \in
            {PermissionsFrom(checked.store, user_id, Tail(pairs), request_context,
                             Append(values, checked.value)) :
                checked \in {CheckPermission(r, user_id, Head(pairs)[1], Head(pairs)[2],
                                             request_context, 0)}} : TRUE

\* PolicyEnforcementPoint.get_user_permissions: permissions[i] is the entry
\* of pairs[i]
get_user_permissions(resources, request_context) ==
    /\ Len(results) < MaxDecisions
    /\ \E pairs \in {PairsOf(resources, PermissionActions)} :
       \E out \in {PermissionsFrom(redis, RiskUser, pairs, request_context, <<>>)} :
          /\ redis' = out.store
          /\ results' = Append(results, 0)
          /\ ret' = [op |-> "get_user_permissions", pairs |-> pairs,
                     request_context |-> request_context, permissions |-> out.values]
          /\ UNCHANGED notPdp

NextPermissions ==
    \/ \E c \in PdpContexts : get_user_permissions(PermissionResources, c)
    \/ \E q \in PdpRequests, c \in PdpContexts : check_permission(q[1], q[2], c, 0)
    \/ Pass(RiskStepSecs * TicksPerSec, RiskHorizonSecs * TicksPerSec)

SpecPermissions == InitPdp /\ [][NextPermissions]_vars

\* C37: each entry of the table get_user_permissions returns is the value
\* check_permission returns for that resource and action when called alone
\* from the state in which get_user_permissions started.
C37_PermissionsMatchSingleChecks ==
    [][ret'.op = "get_user_permissions" =>
          \A i \in DOMAIN ret'.pairs :
              ret'.permissions[i]
                  = CheckPermission(redis, RiskUser, ret'.pairs[i][1], ret'.pairs[i][2],
                                    ret'.request_context, 0).value]_vars

\* ---------------------------------------------------------------------------
\* Revoked devices
\* ---------------------------------------------------------------------------

\* C38: a verify_device call on a record that carries revoked_at (trust was
\* revoked and the device has not been registered again since) reports
\* trusted = false, whatever the age and access count of the device.
C38_RevokedDeviceStaysUntrusted ==
    (/\ ret.op = "verify_device"
     /\ ret.known
     /\ StoredDevice(redis, now).some
     /\ "revoked_at" \in DOMAIN StoredDevice(redis, now).v) => ~ret.trusted

\* ---------------------------------------------------------------------------
\* Concurrent updates of one device record
\* ---------------------------------------------------------------------------

MaxDeviceCalls == 3

\* verify_device and revoke_device_trust are a GET followed by a SETEX of the
\* record that was read; between the two another process may run.  results
\* lists the calls that have completed on a stored record.
devNotTouched == <<tz, policies, issued, blCalled, revoked, loginLog, failRun, created,
                   invalidated>>

\* verify_device, the GET; an unknown device returns at once
vd_get(p, user_id, device_id) ==
    /\ proc[p].pc = "idle"
    /\ Len(results) < MaxDeviceCalls
    /\ \E device_json \in {RedisGet(DeviceKey(user_id, device_id))} :
          IF ~device_json.some
          THEN /\ proc' = proc
               /\ ret' = [op |-> "verify_device", known |-> FALSE]
          ELSE /\ proc' = [proc EXCEPT ![p] = [pc |-> "vd_setex", user_id |-> user_id,
                                               device_id |-> device_id,
                                               device |-> device_json.v]]
               /\ ret' = NoRet
    /\ UNCHANGED <<now, redis, results, devNotTouched>>

\* verify_device, the SETEX of the record it read, updated
vd_setex(p) ==
    /\ proc[p].pc = "vd_setex"
    /\ redis' = RedisSetex(redis, DeviceKey(proc[p].user_id, proc[p].device_id), 2592000,
                           VerifiedDevice(proc[p].device))
    /\ proc' = [proc EXCEPT ![p] = Idle]
    /\ results' = Append(results, "verify_device")
    /\ ret' = [op |-> "verify_device", known |-> TRUE]
    /\ UNCHANGED <<now, devNotTouched>>

\* revoke_device_trust, the GET; an unknown device returns False
rd_get(p, user_id, device_id) ==
    /\ proc[p].pc = "idle"
    /\ Len(results) < MaxDeviceCalls
    /\ \E device_json \in {RedisGet(DeviceKey(user_id, device_id))} :
          IF ~device_json.some
          THEN /\ proc' = proc
               /\ ret' = [op |-> "revoke_device_trust", ok |-> FALSE]
          ELSE /\ proc' = [proc EXCEPT ![p] = [pc |-> "rd_setex", user_id |-> user_id,
                                               device_id |-> device_id,
                                               device |-> device_json.v]]
               /\ ret' = NoRet
    /\ UNCHANGED <<now, redis, results, devNotTouched>>

\* revoke_device_trust, the SETEX of the record it read, revoked
rd_setex(p) ==
    /\ proc[p].pc = "rd_setex"
    /\ redis' = RedisSetex(redis, DeviceKey(proc[p].user_id, proc[p].device_id), 2592000,
                           ("revoked_at" :> now) @@
                           [proc[p].device EXCEPT !["trusted"] = FALSE,
                                                  !["trust_score"] = 0])
    /\ proc' = [proc EXCEPT ![p] = Idle]
    /\ results' = Append(results, "revoke_device_trust")
    /\ ret' = [op |-> "revoke_device_trust", ok |-> TRUE]
    /\ UNCHANGED <<now, devNotTouched>>

\* The device has been registered at the start of the clock
InitDeviceRace ==
    /\ now = 0
    /\ tz = 0
    /\ policies = <<>>
    /\ redis = RedisSetex(<<>>, DeviceKey(RiskUser, RiskDevice), 2592000,
                          DeviceData(RiskUser, RiskDevice))
    /\ issued = {}
    /\ blCalled = {}
    /\ revoked = {}
    /\ loginLog = <<>>
    /\ failRun = [u \in Usernames |-> 0]
    /\ proc = [p \in Procs |-> Idle]
    /\ results = <<>>
    /\ created = {}
    /\ invalidated = {}
    /\ ret = NoRet

NextDeviceRace ==
    \/ \E p \in Procs : vd_get(p, RiskUser, RiskDevice)
    \/ \E p \in Procs : vd_setex(p)
    \/ \E p \in Procs : rd_get(p, RiskUser, RiskDevice)
    \/ \E p \in Procs : rd_setex(p)
    \/ Pass(DeviceStepDays * DayTicks, DeviceHorizonDays * DayTicks)

SpecDeviceRace == InitDeviceRace /\ [][NextDeviceRace]_vars

Completed(op) == Cardinality({i \in DOMAIN results : results[i] = op})

\* C39: once the verify_device and revoke_device_trust calls on a device have
\* all completed, the stored record carries revoked_at with trusted = false if
\* a revocation was among them, and its access_count is the number of
\* completed verify_device calls.
C39_DeviceUpdatesAreNotLost ==
    (AllCallsCompleted /\ StoredDevice(redis, now).some) =>
        \E device \in {StoredDevice(redis, now).v} :
            /\ Completed("revoke_device_trust") > 0 =>
                  ("revoked_at" \in DOMAIN device /\ ~device["trusted"])
            /\ device["access_count"] = Completed("verify_device")

\* ---------------------------------------------------------------------------
\* Loading the policy document
\* ---------------------------------------------------------------------------

\* What PolicyEngine finds at policies_path: no readable file, a file that is
\* not JSON, JSON that is not an object, or a policy document
PolicySources ==
    {[kind |-> "unreadable"], [kind |-> "malformed"], [kind |-> "not_object"]}
    \cup {[kind |-> "document", policies |-> d] : d \in PolicyDocs}

LoadError == <<"Error loading policies">>

\* A loader that falls back to a policy for everything
LoadPoliciesFailOpen(source) ==
    IF source.kind = "document"
    THEN [policies |-> source.policies, log |-> <<"Loaded policies">>]
    ELSE [policies |-> <<CHOOSE p \in PolicyPool : p.id = "admin_all">>, log |-> LoadError]

\* PolicyEngine._load_policies: the table and the line written to the log
LoadPolicies(source) ==
    IF source.kind = "document"
    THEN [policies |-> source.policies, log |-> <<"Loaded policies">>]
    ELSE [policies |-> <<>>, log |-> LoadError]

\* PolicyEngine.__init__; results holds the log line of the loader
InitPolicyLoad ==
    /\ now = 0
    /\ tz = 0
    /\ \E source \in PolicySources :
          /\ policies = LoadPolicies(source).policies
          /\ results = LoadPolicies(source).log
    /\ redis = <<>>
    /\ issued = {}
    /\ blCalled = {}
    /\ revoked = {}
    /\ loginLog = <<>>
    /\ failRun = [u \in Usernames |-> 0]
    /\ proc = [p \in Procs |-> Idle]
    /\ created = {}
    /\ invalidated = {}
    /\ ret = NoRet

NextPolicyLoad ==
    \E q \in Requests, c \in Contexts : evaluate_policy(q[1], q[2], c)

SpecPolicyLoad == InitPolicyLoad /\ [][NextPolicyLoad]_vars

\* C40: when the policy document could not be read or parsed, the policy
\* table is empty and every evaluate_policy returns allowed = false with no
\* policy id; and no evaluation changes the policy table.
C40_PolicyLoadFailsClosed ==
    /\ [](results = LoadError =>
            /\ policies = <<>>
            /\ ret.op = "evaluate_policy" =>
                  (~ret.res.allowed /\ ret.res.policy_id = Nothing))
    /\ [][policies' = policies]_vars

\* evaluate_policy has answered after a failed load
C40_Witness ==
    /\ results = LoadError
    /\ ret.op = "evaluate_policy"
    /\ ~ret.res.allowed

====
